---- MODULE Spec2Model ----
(***************************************************************************)
(* Skill extraction (utils/resumeParser.ts: extractSkillsFromText) and gap  *)
(* analysis (utils/gapAnalysis.ts: analyzeGaps) of the CareerPath Gap      *)
(* Analyzer.                                                               *)
(*                                                                         *)
(* Strings are sequences of one-character strings, so that toLowerCase,    *)
(* the escaping replace() and the regular expression are computed          *)
(* character by character, as the JavaScript engine computes them.         *)
(***************************************************************************)
EXTENDS Integers, Sequences, FiniteSets, TLC

VARIABLES
    text,             \* argument `text` of extractSkillsFromText
    skills,           \* argument `skills` (the vocabulary)
    pc,               \* position inside extractSkillsFromText
    skillMatches,     \* local array of {pattern, skillId}
    scanIndex,        \* number of candidates the for-of loop has consumed
    extractedSkills,  \* local result array
    seen,             \* local Set of skill ids
    result,           \* value returned by the last completed call
    prevResult,       \* value returned by the call before it
    calls,            \* number of calls started on these inputs
    role,             \* the RoleDefinition the extracted skills are analysed for
    analysisResult,   \* GapAnalysisResult of the last analysis
    prevAnalysis,     \* GapAnalysisResult of the analysis before it
    userSkills,       \* the user's skill ids (argument of analyzeGaps)
    file,             \* argument `file` of parseResume
    fileType,         \* local `fileType` of parseResume
    thrown,           \* the Error parseResume has thrown, if any
    variant,          \* which copy of AppContent runs: "App" or "merged"
    data,             \* what loadSkills() and loadRoles() return
    roles,            \* AppContent state `roles`
    userProfile,      \* AppContent state `userProfile`
    selectedRoleId,   \* AppContent state `selectedRoleId`
    currentStep,      \* AppContent state `currentStep`
    mounted,          \* AppContent has run its effects at least once
    committed,        \* the dependency values of the last effect pass
    infoStep,         \* PersonalInfo state `currentStep`
    dreamRoleId,      \* PersonalInfo state `dreamRoleId`
    isStudent,        \* PersonalInfo state `isStudent`
    resumeParser,     \* state of the ResumeParser component
    linkedInParser,   \* state of the LinkedInParser component
    imports,          \* the imports in flight: resume parse and URL import
    delivered,        \* what the last step did with the skills it extracted
    chatbot,          \* state of the Chatbot component
    apiKey,           \* import.meta.env.VITE_OPENAI_API_KEY
    requests          \* the network requests of sendChatMessage

\* state of parseResume outside its call of extractSkillsFromText
resumeVars == <<file, fileType, thrown>>

\* state of the PersonalInfo component
infoVars == <<infoStep, dreamRoleId, isStudent>>

\* state of AppContent besides skills, userSkills and analysisResult
appVars == <<variant, data, roles, userProfile, selectedRoleId, currentStep,
             mounted, committed, infoVars>>

\* state of the importing components and of what they have in flight
importVars == <<resumeParser, linkedInParser, imports, delivered>>

\* state of the Chatbot and of sendChatMessage
chatVars == <<chatbot, apiKey, requests>>

\* state outside extractSkillsFromText and its caller
callerVars == <<userSkills, resumeVars, appVars, importVars, chatVars>>

vars == <<text, skills, pc, skillMatches, scanIndex, extractedSkills, seen,
          result, prevResult, calls, role, analysisResult, prevAnalysis,
          callerVars>>

\* an Error with its message and the length of the message
Error(message, length) == [message |-> message, length |-> length]

NoError == Error("", 0)

NoFile ==
    [name |-> <<>>, type |-> <<"", "">>, magic |-> "", decodes |-> FALSE,
     content |-> <<>>]

\* parseResume has not been called
ResumeIdle == file = NoFile /\ fileType = "unknown" /\ thrown = NoError

\* the JavaScript values null and undefined
Null == "<null>"
Undefined == "<undefined>"
Truthy(value) == value \notin {Null, Undefined, ""}

\* useState<UserProfile | null>(null)
NoProfile == [isStudent |-> FALSE, dreamRole |-> Null, skills |-> <<>>]

\* the dependency values an effect pass has seen
DepsOf(us, rid, rs, sk, step) ==
    [userSkills |-> us, selectedRoleId |-> rid, roles |-> rs, skills |-> sk,
     currentStep |-> step]

\* no import is in flight
NoImport ==
    [stage |-> "none", existingSkills |-> <<>>,
     outcome |-> [status |-> "threw", value |-> <<>>,
                  error |-> [message |-> "", length |-> 0]],
     timer |-> FALSE]

\* the last step was not the end of an extraction that found skills
NotDelivered ==
    [by |-> "none", existingSkills |-> <<>>, extracted |-> <<>>,
     called |-> FALSE, passed |-> <<>>]

\* import.meta.env.VITE_OPENAI_API_KEY is not defined
NoKey == [defined |-> FALSE, value |-> <<>>]

\* the Chatbot is not rendered
ChatIdle ==
    /\ chatbot = [isOpen |-> FALSE, messages |-> <<>>, inputValue |-> <<>>,
                  isLoading |-> FALSE]
    /\ apiKey = NoKey
    /\ requests = [inFlight |-> 0, sent |-> 0]

\* ResumeParser and LinkedInParser are not rendered
ImportIdle ==
    /\ resumeParser = [isProcessing |-> FALSE, error |-> Null, success |-> FALSE]
    /\ linkedInParser =
          [mode |-> "text", isProcessing |-> FALSE, error |-> Null,
           success |-> FALSE, urlInput |-> <<>>, textInput |-> <<>>]
    /\ imports = [resume |-> NoImport, url |-> NoImport]
    /\ delivered = NotDelivered

\* the components are not rendered
ComponentsIdle == ImportIdle /\ ChatIdle

\* the state of AppContent before it is rendered
AppContentIdle ==
    /\ variant = "App"
    /\ data = [skills |-> <<>>, roles |-> <<>>]
    /\ roles = <<>>
    /\ userProfile = NoProfile
    /\ selectedRoleId = Null
    /\ currentStep = "landing"
    /\ mounted = FALSE
    /\ committed = DepsOf(<<>>, Null, <<>>, <<>>, "landing")
    /\ infoStep = 1
    /\ dreamRoleId = Null
    /\ isStudent = FALSE

\* AppContent is not rendered
AppIdle == ComponentsIdle /\ AppContentIdle

----------------------------------------------------------------------------
(* Bounds *)

MaxTokens == 3      \* tokens concatenated into an input text
MaxCalls == 2       \* calls of the extractor on the same inputs
MaxRequirements == 3   \* requirements of a role handed to analyzeGaps
MaxUserSkills == 2     \* ids in a user skill list handed to analyzeGaps

\* no call has returned yet: a list that holds no skill id
NoResult == <<<<"<none>">>>>

----------------------------------------------------------------------------
(* Characters *)

LowerLetters == {"a","b","c","d","e","f","g","h","i","j","k","l","m",
                 "n","o","p","q","r","s","t","u","v","w","x","y","z"}
UpperLetters == {"A","B","C","D","E","F","G","H","I","J","K","L","M",
                 "N","O","P","Q","R","S","T","U","V","W","X","Y","Z"}
Digits == {"0","1","2","3","4","5","6","7","8","9"}

\* \w of a RegExp without the u flag: [A-Za-z0-9_]
WordChars == LowerLetters \cup UpperLetters \cup Digits \cup {"_"}

IsWordChar(c) == c \in WordChars

UpperToLower ==
    [c \in UpperLetters |->
       CASE c = "A" -> "a" [] c = "B" -> "b" [] c = "C" -> "c" [] c = "D" -> "d"
         [] c = "E" -> "e" [] c = "F" -> "f" [] c = "G" -> "g" [] c = "H" -> "h"
         [] c = "I" -> "i" [] c = "J" -> "j" [] c = "K" -> "k" [] c = "L" -> "l"
         [] c = "M" -> "m" [] c = "N" -> "n" [] c = "O" -> "o" [] c = "P" -> "p"
         [] c = "Q" -> "q" [] c = "R" -> "r" [] c = "S" -> "s" [] c = "T" -> "t"
         [] c = "U" -> "u" [] c = "V" -> "v" [] c = "W" -> "w" [] c = "X" -> "x"
         [] c = "Y" -> "y" [] c = "Z" -> "z"]

LowerChar(c) == IF c \in UpperLetters THEN UpperToLower[c] ELSE c

\* String.prototype.toLowerCase
toLowerCase(s) == [i \in 1..Len(s) |-> LowerChar(s[i])]

----------------------------------------------------------------------------
(* The regular expression built for one candidate (line 213):              *)
(*   new RegExp(`\\b${pattern.replace(/[.*+?^${}()|[\]\\]/g, '\\$&')}\\b`, *)
(*              'gi')                                                      *)

\* variant: the class lacks the plus sign
EscapeClassWithoutPlus == {".", "*", "?", "^", "$", "{", "}", "(", ")", "|",
                           "[", "]", "\\"}

\* the character class of the replace(): . * + ? ^ $ { } ( ) | [ ] \
EscapeClass == {".", "*", "+", "?", "^", "$", "{", "}", "(", ")", "|",
                "[", "]", "\\"}

\* replace(/[.*+?^${}()|[\]\\]/g, '\\$&') on one character
EscapeChar(c) == IF c \in EscapeClass THEN <<"\\", c>> ELSE <<c>>

RECURSIVE EscapeFrom(_, _)
EscapeFrom(pattern, i) ==
    IF i > Len(pattern) THEN <<>>
    ELSE EscapeChar(pattern[i]) \o EscapeFrom(pattern, i + 1)

\* pattern.replace(/[.*+?^${}()|[\]\\]/g, '\\$&')
escapeRegExp(pattern) == EscapeFrom(pattern, 1)

\* variants: the source lacks one or both of the \b assertions
RegexSourceNoBoundary(pattern) == escapeRegExp(pattern)
RegexSourceLeadingBoundary(pattern) == <<"\\", "b">> \o escapeRegExp(pattern)
RegexSourceTrailingBoundary(pattern) == escapeRegExp(pattern) \o <<"\\", "b">>

\* the template literal `\\b${...}\\b`
RegexSource(pattern) == <<"\\", "b">> \o escapeRegExp(pattern) \o <<"\\", "b">>

(* Compilation of a pattern source by the RegExp constructor (no u flag). *)
(* The result records whether the constructor throws (status               *)
(* "SyntaxError") and otherwise the sequence of terms of the pattern.  A   *)
(* term is an assertion (\b ^ $), an alternation bar, or an atom (a        *)
(* literal character or the dot) with its quantifier.  Groups and          *)
(* character classes that are closed do not occur in the sources built     *)
(* from the modelled vocabularies; a source that opens one has status      *)
(* "Unmodelled".                                                           *)

Compiled(terms) == [status |-> "ok", terms |-> terms]
SyntaxError == [status |-> "SyntaxError", terms |-> <<>>]
Unmodelled == [status |-> "Unmodelled", terms |-> <<>>]

WordBoundaryTerm == [t |-> "wb",  c |-> "", q |-> "one"]
StartTerm        == [t |-> "bol", c |-> "", q |-> "one"]
EndTerm          == [t |-> "eol", c |-> "", q |-> "one"]
BarTerm          == [t |-> "bar", c |-> "", q |-> "one"]
DotTerm          == [t |-> "any", c |-> "", q |-> "one"]
Literal(ch)      == [t |-> "lit", c |-> ch, q |-> "one"]

IsAtom(term) == term.t \in {"lit", "any"}

QuantifierOf(c) == CASE c = "+" -> "plus" [] c = "*" -> "star" [] c = "?" -> "opt"

HasLater(src, i, c) == \E k \in (i + 1)..Len(src) : src[k] = c /\ src[k - 1] # "\\"

RECURSIVE ParseFrom(_, _, _)
ParseFrom(src, i, terms) ==
    IF i > Len(src) THEN Compiled(terms)
    ELSE LET c == src[i]
             n == Len(terms)
         IN
         CASE c = "\\" ->
                IF i = Len(src) THEN SyntaxError           \* \ at end of pattern
                ELSE IF src[i + 1] = "b"
                     THEN ParseFrom(src, i + 2, Append(terms, WordBoundaryTerm))
                     ELSE ParseFrom(src, i + 2, Append(terms, Literal(src[i + 1])))
           [] c \in {"+", "*", "?"} ->
                IF n = 0 \/ ~IsAtom(terms[n])
                THEN SyntaxError                           \* nothing to repeat
                ELSE IF terms[n].q # "one"
                     THEN IF c = "?"
                          THEN ParseFrom(src, i + 1, terms)        \* lazy form
                          ELSE SyntaxError                 \* nothing to repeat
                     ELSE ParseFrom(src, i + 1,
                              [terms EXCEPT ![n].q = QuantifierOf(c)])
           [] c = "." -> ParseFrom(src, i + 1, Append(terms, DotTerm))
           [] c = "^" -> ParseFrom(src, i + 1, Append(terms, StartTerm))
           [] c = "$" -> ParseFrom(src, i + 1, Append(terms, EndTerm))
           [] c = "|" -> ParseFrom(src, i + 1, Append(terms, BarTerm))
           [] c = "(" -> IF HasLater(src, i, ")") THEN Unmodelled
                         ELSE SyntaxError                  \* unterminated group
           [] c = ")" -> SyntaxError                       \* unmatched ')'
           [] c = "[" -> IF HasLater(src, i, "]") THEN Unmodelled
                         ELSE SyntaxError                  \* unterminated class
           [] OTHER -> ParseFrom(src, i + 1, Append(terms, Literal(c)))

\* new RegExp(source, 'gi')
Compile(source) == ParseFrom(source, 1, <<>>)

\* position p lies between text[p] and text[p+1], 0 <= p <= Len(text)
WordBoundary(str, p) ==
    LET before == p >= 1 /\ IsWordChar(str[p])
        after  == p < Len(str) /\ IsWordChar(str[p + 1])
    IN before # after

\* one character against an atom, under the i flag
AtomMatches(term, ch) ==
    IF term.t = "any" THEN ch \notin {"\n", "\r"}
    ELSE LowerChar(ch) = LowerChar(term.c)

\* text[p+1..q] consists of characters matched by the atom
Run(term, str, p, q) == \A i \in (p + 1)..q : AtomMatches(term, str[i])

\* end positions of a match of one term that starts at a position of S
StepTerm(term, str, S) ==
    LET once == {p + 1 : p \in {x \in S : x < Len(str) /\ AtomMatches(term, str[x + 1])}}
        many == {q \in 1..Len(str) : \E p \in S : p < q /\ Run(term, str, p, q)}
    IN CASE term.t = "wb"  -> {p \in S : WordBoundary(str, p)}
         [] term.t = "bol" -> {p \in S : p = 0}
         [] term.t = "eol" -> {p \in S : p = Len(str)}
         [] term.q = "one"  -> once
         [] term.q = "opt"  -> once \cup S
         [] term.q = "plus" -> many
         [] term.q = "star" -> many \cup S

RECURSIVE EndPositions(_, _, _, _)
EndPositions(terms, k, str, S) ==
    IF k > Len(terms) \/ S = {} THEN S
    ELSE EndPositions(terms, k + 1, str, StepTerm(terms[k], str, S))

\* the alternatives of a compiled pattern (split at the bars)
RECURSIVE Alternatives(_, _, _)
Alternatives(terms, k, cur) ==
    IF k > Len(terms) THEN {cur}
    ELSE IF terms[k].t = "bar"
         THEN {cur} \cup Alternatives(terms, k + 1, <<>>)
         ELSE Alternatives(terms, k + 1, Append(cur, terms[k]))

\* regex.test(text) on a freshly constructed regex (lastIndex = 0): is there
\* a match starting anywhere in the text
RegexTest(regex, str) ==
    \E alt \in Alternatives(regex.terms, 1, <<>>) :
        \E start \in 0..Len(str) :
            EndPositions(alt, 1, str, {start}) # {}

----------------------------------------------------------------------------
(* extractSkillsFromText, lines 176-221 *)

Candidate(pattern, skillId) == [pattern |-> pattern, skillId |-> skillId]

RECURSIVE AliasCandidates(_, _)
AliasCandidates(skill, k) ==
    IF k > Len(skill.aliases) THEN <<>>
    ELSE <<Candidate(toLowerCase(skill.aliases[k]), skill.id)>>
         \o AliasCandidates(skill, k + 1)

\* the body of the loop of lines 183-205 for one skill
CandidatesOf(skill) ==
    <<Candidate(toLowerCase(skill.label), skill.id)>>
    \o (IF toLowerCase(skill.id) # toLowerCase(skill.label)
        THEN <<Candidate(toLowerCase(skill.id), skill.id)>>
        ELSE <<>>)
    \o AliasCandidates(skill, 1)

RECURSIVE AllCandidates(_, _)
AllCandidates(vocabulary, k) ==
    IF k > Len(vocabulary) THEN <<>>
    ELSE CandidatesOf(vocabulary[k]) \o AllCandidates(vocabulary, k + 1)

\* variant: shortest first
CompareByLengthAscending(a, b) == Len(a.pattern) - Len(b.pattern)

\* the comparator of line 208: (a, b) => b.pattern.length - a.pattern.length
CompareByLength(a, b) == Len(b.pattern) - Len(a.pattern)

\* variant: x goes before the elements that compare equal to it
InsertBeforeEqual(sorted, x) ==
    LET later == {k \in 1..Len(sorted) : CompareByLength(x, sorted[k]) <= 0}
        at == IF later = {} THEN Len(sorted) + 1
              ELSE CHOOSE k \in later : \A j \in later : k <= j
    IN SubSeq(sorted, 1, at - 1) \o <<x>> \o SubSeq(sorted, at, Len(sorted))

\* Array.prototype.sort is stable: x goes before the first element that the
\* comparator orders after it
InsertSorted(sorted, x) ==
    LET later == {k \in 1..Len(sorted) : CompareByLength(x, sorted[k]) < 0}
        at == IF later = {} THEN Len(sorted) + 1
              ELSE CHOOSE k \in later : \A j \in later : k <= j
    IN SubSeq(sorted, 1, at - 1) \o <<x>> \o SubSeq(sorted, at, Len(sorted))

RECURSIVE SortFrom(_, _, _)
SortFrom(arr, k, sorted) ==
    IF k > Len(arr) THEN sorted
    ELSE SortFrom(arr, k + 1, InsertSorted(sorted, arr[k]))

\* skillMatches.sort((a, b) => b.pattern.length - a.pattern.length)
SortCandidates(arr) == SortFrom(arr, 1, <<>>)

\* variant: the seen set is not consulted
CandidateHitsIgnoringSeen(candidate, str, seenIds) ==
    RegexTest(Compile(RegexSource(candidate.pattern)), str)

\* the condition of line 214 for one candidate
CandidateHits(candidate, str, seenIds) ==
    /\ RegexTest(Compile(RegexSource(candidate.pattern)), str)
    /\ candidate.skillId \notin seenIds

----------------------------------------------------------------------------
(* Inputs: vocabularies (Skill[], types.ts lines 331-336) and texts.  A    *)
(* text is a concatenation of at most MaxTokens tokens of the family of    *)
(* its vocabulary, or one of the two texts the specification names.        *)

SkillJs ==
    [id |-> <<"j", "s">>, label |-> <<"J", "a", "v", "a", "S", "c", "r", "i", "p", "t">>,
       aliases |-> <<<<"e", "c", "m", "a", "s", "c", "r", "i", "p", "t">>>>, category |-> "language"]

SkillJava ==
    [id |-> <<"j", "a", "v", "a">>, label |-> <<"J", "a", "v", "a">>,
       aliases |-> <<>>, category |-> "language"]

SkillC ==
    [id |-> <<"c">>, label |-> <<"C">>,
       aliases |-> <<>>, category |-> "language"]

SkillCpp ==
    [id |-> <<"c", "p", "p">>, label |-> <<"C", "+", "+">>,
       aliases |-> <<>>, category |-> "language"]

SkillCSharp ==
    [id |-> <<"c", "s", "h", "a", "r", "p">>, label |-> <<"C", "#">>,
       aliases |-> <<>>, category |-> "language"]

SkillReact ==
    [id |-> <<"r", "e", "a", "c", "t">>, label |-> <<"R", "e", "a", "c", "t">>,
       aliases |-> <<>>, category |-> "framework"]

SkillSql ==
    [id |-> <<"s", "q", "l">>, label |-> <<"S", "Q", "L">>,
       aliases |-> <<>>, category |-> "language"]

SkillNode ==
    [id |-> <<"n", "o", "d", "e">>, label |-> <<"N", "o", "d", "e">>,
       aliases |-> <<>>, category |-> "tool"]

SkillNodeJs ==
    [id |-> <<"n", "o", "d", "e", "j", "s">>, label |-> <<"N", "o", "d", "e", ".", "j", "s">>,
       aliases |-> <<>>, category |-> "framework"]

SkillReactNative ==
    [id |-> <<"r", "n">>, label |-> <<"R", "e", "a", "c", "t", " ", "N", "a", "t", "i", "v", "e">>,
       aliases |-> <<>>, category |-> "framework"]

SkillGo ==
    [id |-> <<"g", "o">>, label |-> <<"G", "o">>,
       aliases |-> <<<<>>>>, category |-> "language"]

SkillNoLabel ==
    [id |-> <<"x">>, label |-> <<>>,
       aliases |-> <<>>, category |-> "tool"]

SkillDotNet ==
    [id |-> <<"d", "o", "t", "n", "e", "t">>, label |-> <<".", "N", "E", "T">>,
       aliases |-> <<<<"(", "x">>, <<"[", "y">>, <<"a", "\\">>, <<"*">>, <<"?">>, <<"^", "a">>, <<"a", "$">>, <<"a", "|", "b">>, <<"{">>, <<"}">>, <<"]">>, <<")">>>>, category |-> "framework"]

SkillCppPlus ==
    [id |-> <<"c", "p", "p">>, label |-> <<"C", "+", "+">>,
       aliases |-> <<<<"c", "+">>>>, category |-> "language"]

VocabJsJava == <<SkillJs, SkillJava>>
VocabJavaJs == <<SkillJava, SkillJs>>
VocabC == <<SkillC, SkillCpp, SkillCSharp, SkillReact, SkillSql>>
VocabNode == <<SkillNode, SkillNodeJs, SkillReact, SkillReactNative>>
VocabEmptyAlias == <<SkillGo, SkillJava>>
VocabEmptyLabel == <<SkillNoLabel, SkillGo>>
VocabPunctuation == <<SkillCppPlus, SkillDotNet>>
VocabJavaNode == <<SkillJava, SkillNode>>
VocabNodeJava == <<SkillNode, SkillJava>>

TokensJava ==
    {<<"J", "a", "v", "a">>,
     <<"J", "a", "v", "a", "S", "c", "r", "i", "p", "t">>,
     <<" ">>,
     <<"j", "s">>,
     <<"s", "c", "r", "i", "p", "t">>,
     <<".">>}

TokensC ==
    {<<"C">>,
     <<"+", "+">>,
     <<"#">>,
     <<" ">>,
     <<"R", "e", "a", "c", "t">>,
     <<"S", "Q", "L">>}

TokensNode ==
    {<<"N", "o", "d", "e">>,
     <<".">>,
     <<"j", "s">>,
     <<" ">>,
     <<"R", "e", "a", "c", "t">>,
     <<"N", "a", "t", "i", "v", "e">>}

TokensBlank ==
    {<<"G", "o">>,
     <<" ">>,
     <<"\t">>,
     <<"\n">>,
     <<"x">>}

TokensPunctuation ==
    {<<"C">>,
     <<"+">>,
     <<".", "N", "E", "T">>,
     <<"(", "x">>,
     <<" ">>,
     <<"a">>}

TokensEqualLength ==
    {<<"J", "a", "v", "a">>,
     <<"N", "o", "d", "e">>,
     <<" ">>}

\* "Proficient in Java and JavaScript development."
ScenarioText ==
    <<"P", "r", "o", "f", "i", "c", "i", "e", "n", "t", " ", "i", "n", " ", "J", "a", "v", "a", " ", "a", "n", "d", " ",
      "J", "a", "v", "a", "S", "c", "r", "i", "p", "t", " ",
      "d", "e", "v", "e", "l", "o", "p", "m", "e", "n", "t", ".">>

\* "C++ and SQL"
CppSqlText ==
    <<"C", "+", "+", " ", "a", "n", "d", " ", "S", "Q", "L">>

RECURSIVE TextsOver(_, _)
TextsOver(tokens, n) ==
    IF n = 0 THEN {<<>>}
    ELSE LET shorter == TextsOver(tokens, n - 1)
         IN shorter \cup {t \o tok : t \in shorter, tok \in tokens}

Input(vocabulary, str) == [skills |-> vocabulary, text |-> str]

Inputs ==
    {Input(v, t) : v \in {VocabJsJava, VocabJavaJs},
                   t \in TextsOver(TokensJava, MaxTokens) \cup {ScenarioText}}
    \cup {Input(VocabC, t) :
             t \in TextsOver(TokensC, MaxTokens) \cup {CppSqlText}}
    \cup {Input(VocabNode, t) : t \in TextsOver(TokensNode, MaxTokens)}
    \cup {Input(v, t) : v \in {VocabEmptyAlias, VocabEmptyLabel},
                        t \in TextsOver(TokensBlank, MaxTokens)}
    \cup {Input(VocabPunctuation, t) :
             t \in TextsOver(TokensPunctuation, MaxTokens)}
    \cup {Input(v, t) : v \in {VocabJavaNode, VocabNodeJava},
                        t \in TextsOver(TokensEqualLength, MaxTokens)}

----------------------------------------------------------------------------
(* analyzeGaps(userSkills, role, skills): normalisation against the        *)
(* vocabulary, matched and missing requirements, the two readiness scores  *)
(* and the missing skills by category.                                     *)

\* type SkillCategory, types.ts
SkillCategories == {"language", "framework", "tool", "soft"}

\* interface RoleSkillRequirement
Requirement(skillId, importance) == [skillId |-> skillId, importance |-> importance]

RECURSIVE SumImportance(_, _)
SumImportance(requirements, k) ==
    IF k > Len(requirements) THEN 0
    ELSE requirements[k].importance + SumImportance(requirements, k + 1)

\* Math.round(100 * part / whole) for whole > 0
RoundPercent(part, whole) == (200 * part + whole) \div (2 * whole)

\* variant: the user's ids are passed on unfiltered
NormalizeKeepingAll(userSkillIds, vocabulary) == userSkillIds

\* step 1: the user's ids that are ids of the vocabulary, in their order
NormalizeUserSkills(userSkillIds, vocabulary) ==
    LET InVocabulary(id) == \E k \in 1..Len(vocabulary) : vocabulary[k].id = id
    IN SelectSeq(userSkillIds, InVocabulary)

\* step 2: the requirements the normalised ids satisfy, in role order
MatchedRequirements(normalized, requirements) ==
    LET IsMatched(req) == \E k \in 1..Len(normalized) : normalized[k] = req.skillId
    IN SelectSeq(requirements, IsMatched)

\* variant: every requirement is reported missing
MissingAllRequirements(normalized, requirements) == requirements

\* step 2: the requirements the normalised ids do not satisfy, in role order
MissingRequirements(normalized, requirements) ==
    LET IsMissing(req) == \A k \in 1..Len(normalized) : normalized[k] # req.skillId
    IN SelectSeq(requirements, IsMissing)

SkillIdsOf(requirements) ==
    [k \in 1..Len(requirements) |-> requirements[k].skillId]

\* variant: the percentage is truncated
ReadinessTruncated(matchedReqs, requirements) ==
    IF Len(requirements) = 0 THEN 100
    ELSE (100 * Len(matchedReqs)) \div Len(requirements)

\* variant: a role without requirements scores 0
ReadinessZeroWhenEmpty(matchedReqs, requirements) ==
    IF Len(requirements) = 0 THEN 0
    ELSE RoundPercent(Len(matchedReqs), Len(requirements))

\* step 3: simple readiness
ReadinessPercent(matchedReqs, requirements) ==
    IF Len(requirements) = 0 THEN 100
    ELSE RoundPercent(Len(matchedReqs), Len(requirements))

\* variant: every requirement weighs the same
WeightedReadinessUnweighted(matchedReqs, requirements) ==
    IF Len(requirements) = 0 THEN 100
    ELSE RoundPercent(Len(matchedReqs), Len(requirements))

\* step 4: readiness weighted by importance
WeightedReadinessPercent(matchedReqs, requirements) ==
    IF Len(requirements) = 0 THEN 100
    ELSE RoundPercent(SumImportance(matchedReqs, 1),
                      SumImportance(requirements, 1))

\* variant: only the categories that have a missing skill are keys
MissingByCategoryPartial(missing, vocabulary) ==
    LET CategoryOf(id) ==
            vocabulary[CHOOSE k \in 1..Len(vocabulary) : vocabulary[k].id = id].category
        HasCategory(id, category) ==
            \E k \in 1..Len(vocabulary) :
                vocabulary[k].id = id /\ vocabulary[k].category = category
        present == {CategoryOf(missing[i]) : i \in 1..Len(missing)}
    IN [category \in present |->
          LET Has(id) == HasCategory(id, category) IN SelectSeq(missing, Has)]

\* step 5: the missing ids under the category the vocabulary gives them
MissingByCategory(missing, vocabulary) ==
    [category \in SkillCategories |->
       LET HasCategory(id) ==
               \E k \in 1..Len(vocabulary) :
                   vocabulary[k].id = id /\ vocabulary[k].category = category
       IN SelectSeq(missing, HasCategory)]

analyzeGaps(userSkillIds, roleDef, vocabulary) ==
    LET normalized == NormalizeUserSkills(userSkillIds, vocabulary)
        requirements == roleDef.requiredSkills
        matchedReqs == MatchedRequirements(normalized, requirements)
        missingReqs == MissingRequirements(normalized, requirements)
    IN [roleId |-> roleDef.id,
        normalizedUserSkills |-> normalized,
        matchedSkills |-> SkillIdsOf(matchedReqs),
        missingSkills |-> SkillIdsOf(missingReqs),
        readinessPercent |-> ReadinessPercent(matchedReqs, requirements),
        weightedReadinessPercent |->
            WeightedReadinessPercent(matchedReqs, requirements),
        missingSkillsByCategory |->
            MissingByCategory(SkillIdsOf(missingReqs), vocabulary)]

\* no analysis has been made yet
NoAnalysis ==
    [roleId |-> "<none>", normalizedUserSkills |-> <<>>, matchedSkills |-> <<>>,
     missingSkills |-> <<>>, readinessPercent |-> 0,
     weightedReadinessPercent |-> 0,
     missingSkillsByCategory |-> [category \in SkillCategories |-> <<>>]]

\* interface RoleDefinition: a role that requires every skill of the
\* vocabulary, with importances 3, 1, 2, 3, 1, ...
ImportanceAt(k) == CASE k % 3 = 1 -> 3 [] k % 3 = 2 -> 1 [] OTHER -> 2

RoleRequiringAll(vocabulary) ==
    [id |-> "role-all", name |-> "All skills", description |-> "",
     responsibilities |-> <<>>,
     requiredSkills |-> [k \in 1..Len(vocabulary) |->
                           Requirement(vocabulary[k].id, ImportanceAt(k))]]

\* a role without requirements
RoleRequiringNothing ==
    [id |-> "role-none", name |-> "No skills", description |-> "",
     responsibilities |-> <<>>, requiredSkills |-> <<>>]

RolesFor(vocabulary) == {RoleRequiringAll(vocabulary), RoleRequiringNothing}

----------------------------------------------------------------------------
(* The state machine: a caller applies extractSkillsFromText to a text and *)
(* a vocabulary and hands the result to analyzeGaps, up to MaxCalls times  *)
(* on the same inputs.                                                     *)

\* variant: the set outlives the call
StaleSeen == seen

\* line 178: const seen = new Set<string>()
NewSeen == {}

\* line 177: const extractedSkills: string[] = []
NewExtractedSkills == <<>>

\* lines 211-218 from candidate k on, then the return of line 220
RECURSIVE ScanFrom(_, _, _, _, _)
ScanFrom(sorted, k, str, seenIds, found) ==
    IF k > Len(sorted) THEN [status |-> "returned", value |-> found]
    ELSE LET candidate == sorted[k]
             regex == Compile(RegexSource(candidate.pattern))
         IN IF regex.status # "ok" THEN [status |-> regex.status, value |-> <<>>]
            ELSE IF CandidateHits(candidate, str, seenIds)
                 THEN ScanFrom(sorted, k + 1, str,
                               seenIds \cup {candidate.skillId},
                               Append(found, candidate.skillId))
                 ELSE ScanFrom(sorted, k + 1, str, seenIds, found)

\* lines 176-221 as one call
extractSkillsFromText(str, vocabulary) ==
    ScanFrom(SortCandidates(AllCandidates(vocabulary, 1)), 1, str,
             NewSeen, NewExtractedSkills)

Init ==
    /\ \E inp \in Inputs : text = inp.text /\ skills = inp.skills
    /\ role \in RolesFor(skills)
    /\ analysisResult = NoAnalysis
    /\ prevAnalysis = NoAnalysis
    /\ userSkills = <<>>
    /\ ResumeIdle
    /\ AppIdle
    /\ pc = "call"
    /\ skillMatches = <<>>
    /\ scanIndex = 0
    /\ extractedSkills = <<>>
    /\ seen = {}
    /\ result = NoResult
    /\ prevResult = NoResult
    /\ calls = 0

\* entry of the function, lines 176-181
Call ==
    /\ pc = "call"
    /\ calls < MaxCalls
    /\ calls' = calls + 1
    /\ extractedSkills' = NewExtractedSkills
    /\ seen' = NewSeen
    /\ skillMatches' = <<>>
    /\ scanIndex' = 0
    /\ pc' = "build"
    /\ UNCHANGED <<text, skills, result, prevResult, role, analysisResult,
                   prevAnalysis, callerVars>>

\* lines 183-205
BuildCandidates ==
    /\ pc = "build"
    /\ skillMatches' = AllCandidates(skills, 1)
    /\ pc' = "sort"
    /\ UNCHANGED <<text, skills, scanIndex, extractedSkills, seen, result,
                   prevResult, calls, role, analysisResult, prevAnalysis,
                   callerVars>>

\* line 208
Sort ==
    /\ pc = "sort"
    /\ skillMatches' = SortCandidates(skillMatches)
    /\ pc' = "scan"
    /\ UNCHANGED <<text, skills, scanIndex, extractedSkills, seen, result,
                   prevResult, calls, role, analysisResult, prevAnalysis,
                   callerVars>>

\* one iteration of the loop of lines 211-218
ScanCandidate ==
    /\ pc = "scan"
    /\ scanIndex < Len(skillMatches)
    /\ LET candidate == skillMatches[scanIndex + 1]
           regex == Compile(RegexSource(candidate.pattern))
       IN IF regex.status # "ok"
          THEN /\ pc' = (IF regex.status = "SyntaxError" THEN "threw"
                                                         ELSE "unmodelled")
               /\ UNCHANGED <<scanIndex, extractedSkills, seen>>
          ELSE /\ pc' = "scan"
               /\ scanIndex' = scanIndex + 1
               /\ IF CandidateHits(candidate, text, seen)
                  THEN /\ extractedSkills' =
                             Append(extractedSkills, candidate.skillId)
                       /\ seen' = seen \cup {candidate.skillId}
                  ELSE UNCHANGED <<extractedSkills, seen>>
    /\ UNCHANGED <<text, skills, skillMatches, result, prevResult, calls,
                   role, analysisResult, prevAnalysis, callerVars>>

\* line 220
Return ==
    /\ pc = "scan"
    /\ scanIndex = Len(skillMatches)
    /\ result' = extractedSkills
    /\ prevResult' = result
    /\ pc' = "analyze"
    /\ UNCHANGED <<text, skills, skillMatches, scanIndex, extractedSkills,
                   seen, calls, role, analysisResult, prevAnalysis, callerVars>>

\* the caller hands the extracted ids to the gap analysis
Analyze ==
    /\ pc = "analyze"
    /\ analysisResult' = analyzeGaps(result, role, skills)
    /\ prevAnalysis' = analysisResult
    /\ pc' = "call"
    /\ UNCHANGED <<text, skills, skillMatches, scanIndex, extractedSkills,
                   seen, result, prevResult, calls, role, callerVars>>

Next == Call \/ BuildCandidates \/ Sort \/ ScanCandidate \/ Return \/ Analyze

Spec == Init /\ [][Next]_vars

TypeOK ==
    /\ pc \in {"call", "build", "sort", "scan", "analyze", "threw",
               "unmodelled"}
    /\ scanIndex \in 0..Len(skillMatches)
    /\ calls \in 0..MaxCalls
    /\ seen = {extractedSkills[i] : i \in 1..Len(extractedSkills)}

----------------------------------------------------------------------------
(* analyzeGaps applied to user skill lists that may hold unknown ids and    *)
(* to roles with up to MaxRequirements requirements of every importance.    *)

SkillTeamwork ==
    [id |-> <<"t", "e", "a", "m", "w", "o", "r", "k">>,
     label |-> <<"T", "e", "a", "m", "w", "o", "r", "k">>,
     aliases |-> <<>>, category |-> "soft"]

\* one skill of each category
VocabAnalysis == <<SkillJava, SkillReact, SkillNode, SkillTeamwork>>

\* an id that no vocabulary holds
UnknownSkillId == <<"c", "o", "b", "o", "l">>

\* type ImportanceLevel = 1 | 2 | 3
ImportanceLevels == {1, 2, 3}

VocabularyIds(vocabulary) == {vocabulary[k].id : k \in 1..Len(vocabulary)}

\* lists of at most n requirements on different skills of the vocabulary
RECURSIVE RequirementLists(_, _)
RequirementLists(vocabulary, n) ==
    IF n = 0 THEN {<<>>}
    ELSE LET shorter == RequirementLists(vocabulary, n - 1)
             Free(list) == VocabularyIds(vocabulary)
                             \ {list[k].skillId : k \in 1..Len(list)}
         IN shorter \cup
            UNION {{Append(list, Requirement(id, importance)) :
                      id \in Free(list), importance \in ImportanceLevels} :
                   list \in shorter}

RoleRequiring(requirements) ==
    [id |-> "role", name |-> "Role", description |-> "",
     responsibilities |-> <<>>, requiredSkills |-> requirements]

\* lists of at most n ids
RECURSIVE IdLists(_, _)
IdLists(ids, n) ==
    IF n = 0 THEN {<<>>}
    ELSE LET shorter == IdLists(ids, n - 1)
         IN shorter \cup {Append(list, id) : list \in shorter, id \in ids}

InitAnalyze ==
    /\ skills = VocabAnalysis
    /\ userSkills \in IdLists(VocabularyIds(VocabAnalysis) \cup {UnknownSkillId},
                               MaxUserSkills)
    /\ \E requirements \in RequirementLists(VocabAnalysis, MaxRequirements) :
          role = RoleRequiring(requirements)
    /\ analysisResult = NoAnalysis
    /\ prevAnalysis = NoAnalysis
    /\ ResumeIdle
    /\ AppIdle
    /\ pc = "ready"
    /\ text = <<>>
    /\ skillMatches = <<>>
    /\ scanIndex = 0
    /\ extractedSkills = <<>>
    /\ seen = {}
    /\ result = NoResult
    /\ prevResult = NoResult
    /\ calls = 0

\* const result = analyzeGaps(userSkills, role, skills)
AnalyzeGaps ==
    /\ pc = "ready"
    /\ analysisResult' = analyzeGaps(userSkills, role, skills)
    /\ prevAnalysis' = analysisResult
    /\ pc' = "analyzed"
    /\ UNCHANGED <<text, skills, skillMatches, scanIndex, extractedSkills,
                   seen, result, prevResult, calls, role, callerVars>>

NextAnalyze == AnalyzeGaps

SpecAnalyze == InitAnalyze /\ [][NextAnalyze]_vars

----------------------------------------------------------------------------
(* parseResume (SpecResume) *)

MinExtractedLength == 10
MinMeaningfulLength == 20

\* String.prototype.trim
RECURSIVE TrimStart(_)
TrimStart(str) ==
    IF str # <<>> /\ Head(str) \in {" ", "\t", "\n", "\r"}
    THEN TrimStart(Tail(str)) ELSE str

RECURSIVE TrimEnd(_)
TrimEnd(str) ==
    IF str # <<>> /\ str[Len(str)] \in {" ", "\t", "\n", "\r"}
    THEN TrimEnd(SubSeq(str, 1, Len(str) - 1)) ELSE str

Trim(str) == TrimEnd(TrimStart(str))

\* String.prototype.endsWith
EndsWith(str, suffix) ==
    /\ Len(suffix) <= Len(str)
    /\ SubSeq(str, Len(str) - Len(suffix) + 1, Len(str)) = suffix

\* a MIME type "type/subtype" is the pair <<type, subtype>>; "" is <<"", "">>
Mime(type, subtype) == <<type, subtype>>
MimePdf == Mime("application", "pdf")
MimeDocx ==
    Mime("application",
         "vnd.openxmlformats-officedocument.wordprocessingml.document")
MimeDoc == Mime("application", "msword")
MimeTextPlain == Mime("text", "plain")
MimeTextMarkdown == Mime("text", "markdown")
MimePng == Mime("image", "png")
MimeNone == Mime("", "")

\* lines 226-259
detectFileType(f) ==
    LET fileName == toLowerCase(f.name)
        mimeType == f.type
    IN IF EndsWith(fileName, <<".", "p", "d", "f">>) THEN "pdf"
       ELSE IF EndsWith(fileName, <<".", "d", "o", "c", "x">>) THEN "docx"
       ELSE IF EndsWith(fileName, <<".", "d", "o", "c">>) THEN "doc"
       ELSE IF \/ EndsWith(fileName, <<".", "t", "x", "t">>)
               \/ EndsWith(fileName, <<".", "t", "e", "x", "t">>) THEN "txt"
       ELSE IF mimeType = MimePdf THEN "pdf"
       ELSE IF mimeType = MimeDocx THEN "docx"
       ELSE IF mimeType = MimeDoc THEN "doc"
       ELSE IF mimeType = MimeTextPlain \/ mimeType[1] = "text" THEN "txt"
       ELSE "unknown"

Returns(value) == [status |-> "returned", value |-> value, error |-> NoError]
Throws(error) == [status |-> "threw", value |-> <<>>, error |-> error]

\* the messages of the errors and their lengths
OldWordFormat ==
    Error("Old Word format (.doc) is not supported. Please save your resume as a .docx file or export it as PDF.", 101)
UnsupportedFileType(f) ==
    Error("Unsupported file type. Please upload a PDF, DOCX, or TXT file. Detected file: ...",
          78 + Len(f.name))
NoMeaningfulText ==
    Error("Could not extract meaningful text from the file. The file may be corrupted, password-protected, or image-based.", 111)
InvalidPdf ==
    Error("Invalid PDF file. The file may be corrupted or not a valid PDF.", 63)
FailedToParsePdf == Error("Failed to parse PDF: ...", 21)
PasswordProtected ==
    Error("PDF file is password-protected. Please remove the password and try again.", 73)
InvalidDocx ==
    Error("Invalid DOCX file. The file may be corrupted or not a valid DOCX document.", 74)
FailedToParseDocx == Error("Failed to parse DOCX: ...", 22)
NoDocxText ==
    Error("Could not extract text from DOCX file. The file may be empty or corrupted.", 74)
InsufficientText ==
    Error("Text file appears to be empty or contains insufficient content.", 63)
InvalidRegularExpression ==
    Error("Invalid regular expression: ...: Nothing to repeat", 29)
FailedToParseResume(error) ==
    Error("Failed to parse resume: ...", 23 + error.length)

\* lines 36-105. The message of the error of line 88 holds "password", so
\* the catch of lines 96-98 replaces it.
extractTextFromPDF(f) ==
    IF f.magic # "%PDF" THEN Throws(InvalidPdf)
    ELSE IF ~f.decodes THEN Throws(FailedToParsePdf)
    ELSE IF Len(Trim(f.content)) < MinExtractedLength
         THEN Throws(PasswordProtected)
    ELSE Returns(Trim(f.content))

\* lines 110-145
extractTextFromDOCX(f) ==
    IF f.magic # "PK" THEN Throws(InvalidDocx)
    ELSE IF ~f.decodes THEN Throws(FailedToParseDocx)
    ELSE IF Len(Trim(f.content)) < MinExtractedLength THEN Throws(NoDocxText)
    ELSE Returns(Trim(f.content))

\* lines 150-170
extractTextFromTXT(f) ==
    IF Len(Trim(f.content)) < MinExtractedLength THEN Throws(InsufficientText)
    ELSE Returns(Trim(f.content))

\* variant: an empty list of skills is reported as an error
SkillsOutcomeThrowingWhenEmpty(found) ==
    IF Len(found) = 0
    THEN Throws(Error("No skills found in the resume text.", 35))
    ELSE Returns(found)

\* lines 309-314
SkillsOutcome(found) ==
    IF Len(found) = 0 THEN Returns(<<>>) ELSE Returns(found)

CvPdf == <<"C", "V", ".", "P", "D", "F">>
CvDocx == <<"c", "v", ".", "d", "o", "c", "x">>
CvDoc == <<"c", "v", ".", "d", "o", "c">>
CvTxt == <<"c", "v", ".", "t", "x", "t">>
CvText == <<"c", "v", ".", "t", "e", "x", "t">>
Cv == <<"c", "v">>

TokensResume ==
    {<<"t", "e", "a", "m", " ", "l", "e", "a", "d", "e", "r", " ", "w", "i", "t", "h", " ">>,
     <<"J", "a", "v", "a">>,
     <<"s", "a", "l", "e", "s">>,
     <<" ">>}

FileNamesAndTypes ==
    {<<n, MimeNone>> : n \in {CvPdf, CvDocx, CvDoc, CvTxt, CvText}}
    \cup {<<Cv, t>> : t \in {MimePdf, MimeDocx, MimeDoc, MimeTextPlain,
                             MimeTextMarkdown, MimePng, MimeNone}}
    \cup {<<CvPdf, MimeTextPlain>>}

ResumeFiles ==
    {[name |-> nt[1], type |-> nt[2], magic |-> m, decodes |-> d,
      content |-> c] :
        nt \in FileNamesAndTypes, m \in {"%PDF", "PK", "other"},
        d \in BOOLEAN, c \in TextsOver(TokensResume, MaxTokens)}

InitResume ==
    /\ file \in ResumeFiles
    /\ skills = VocabJsJava
    /\ text = <<>>
    /\ fileType = "unknown"
    /\ thrown = NoError
    /\ pc = "parseResume"
    /\ extractedSkills = <<>>
    /\ result = NoResult
    /\ prevResult = NoResult
    /\ skillMatches = <<>>
    /\ scanIndex = 0
    /\ seen = {}
    /\ calls = 0
    /\ role = RoleRequiringNothing
    /\ analysisResult = NoAnalysis
    /\ prevAnalysis = NoAnalysis
    /\ userSkills = <<>>
    /\ AppIdle

\* line 266
DetectFileType ==
    /\ pc = "parseResume"
    /\ fileType' = detectFileType(file)
    /\ pc' = "try"
    /\ UNCHANGED <<text, skills, skillMatches, scanIndex, extractedSkills,
                   seen, result, prevResult, calls, role, analysisResult,
                   prevAnalysis, userSkills, file, thrown, appVars,
                   importVars, chatVars>>

\* lines 270-296
ExtractText ==
    /\ pc = "try"
    /\ LET outcome ==
             CASE fileType = "doc" -> Throws(OldWordFormat)
               [] fileType = "unknown" -> Throws(UnsupportedFileType(file))
               [] fileType = "pdf" -> extractTextFromPDF(file)
               [] fileType = "docx" -> extractTextFromDOCX(file)
               [] fileType = "txt" -> extractTextFromTXT(file)
       IN IF outcome.status = "threw"
          THEN thrown' = outcome.error /\ pc' = "catch" /\ UNCHANGED text
          ELSE text' = outcome.value /\ pc' = "validate" /\ UNCHANGED thrown
    /\ UNCHANGED <<skills, skillMatches, scanIndex, extractedSkills, seen,
                   result, prevResult, calls, role, analysisResult,
                   prevAnalysis, userSkills, file, fileType, appVars,
                   importVars, chatVars>>

\* lines 299-304
ValidateText ==
    /\ pc = "validate"
    /\ IF Len(Trim(text)) < MinMeaningfulLength
       THEN thrown' = NoMeaningfulText /\ pc' = "catch"
       ELSE pc' = "extract" /\ UNCHANGED thrown
    /\ UNCHANGED <<text, skills, skillMatches, scanIndex, extractedSkills,
                   seen, result, prevResult, calls, role, analysisResult,
                   prevAnalysis, userSkills, file, fileType, appVars,
                   importVars, chatVars>>

\* line 307
ExtractSkills ==
    /\ pc = "extract"
    /\ LET outcome == extractSkillsFromText(text, skills)
       IN IF outcome.status = "returned"
          THEN /\ extractedSkills' = outcome.value
               /\ pc' = "extracted"
               /\ UNCHANGED thrown
          ELSE /\ thrown' = InvalidRegularExpression
               /\ pc' = "catch"
               /\ UNCHANGED extractedSkills
    /\ UNCHANGED <<text, skills, skillMatches, scanIndex, seen, result,
                   prevResult, calls, role, analysisResult, prevAnalysis,
                   userSkills, file, fileType, appVars,
                   importVars, chatVars>>

\* lines 309-314
ReturnSkills ==
    /\ pc = "extracted"
    /\ LET outcome == SkillsOutcome(extractedSkills)
       IN IF outcome.status = "threw"
          THEN thrown' = outcome.error /\ pc' = "catch" /\ UNCHANGED result
          ELSE result' = outcome.value /\ pc' = "resumeReturned"
               /\ UNCHANGED thrown
    /\ UNCHANGED <<text, skills, skillMatches, scanIndex, extractedSkills,
                   seen, prevResult, calls, role, analysisResult,
                   prevAnalysis, userSkills, file, fileType, appVars,
                   importVars, chatVars>>

\* lines 315-321
CatchAndRethrow ==
    /\ pc = "catch"
    /\ thrown' = IF thrown.length > 20 THEN thrown
                 ELSE FailedToParseResume(thrown)
    /\ pc' = "resumeThrew"
    /\ UNCHANGED <<text, skills, skillMatches, scanIndex, extractedSkills,
                   seen, result, prevResult, calls, role, analysisResult,
                   prevAnalysis, userSkills, file, fileType, appVars,
                   importVars, chatVars>>

NextResume ==
    \/ DetectFileType \/ ExtractText \/ ValidateText \/ ExtractSkills
    \/ ReturnSkills \/ CatchAndRethrow

SpecResume == InitResume /\ [][NextResume]_vars

----------------------------------------------------------------------------
(* AppContent and PersonalInfo (SpecApp) *)

(* pc names the handler that ran last, "effects" after an effect pass.
   AppContent exists twice: in App.tsx, and in the merged copy that
   contexts/ThemeContext.tsx holds from line 232 on. An event handler runs
   as one step. After it React renders and runs, in one pass, the effects of
   which a dependency has changed; the state the effects set is rendered and
   passed over again. Events are handled when no pass is outstanding.
   Dependencies are compared by value: a pass over equal values would set
   the values the state already holds. *)

RoleFrontend ==
    [id |-> "frontend", name |-> "Frontend Developer", description |-> "",
     responsibilities |-> <<>>,
     requiredSkills |-> <<Requirement(SkillReact.id, 3)>>]

RoleBackend ==
    [id |-> "backend", name |-> "Backend Developer", description |-> "",
     responsibilities |-> <<>>,
     requiredSkills |-> <<Requirement(SkillJava.id, 3),
                          Requirement(SkillReact.id, 1)>>]

VocabApp == <<SkillJava, SkillReact>>

\* what loadSkills() and loadRoles() can return
DataSets ==
    {[skills |-> VocabApp, roles |-> <<RoleFrontend, RoleBackend>>],
     [skills |-> <<>>, roles |-> <<RoleFrontend, RoleBackend>>]}

RoleIds(roleList) == {roleList[k].id : k \in 1..Len(roleList)}

\* roles.find(r => r.id === selectedRoleId); Null when there is none
FindRole(roleList, roleId) ==
    LET hits == {k \in 1..Len(roleList) : roleList[k].id = roleId}
    IN IF hits = {} THEN Null
       ELSE roleList[CHOOSE k \in hits : \A j \in hits : k <= j]

RoleFound(roleList, roleId) == \E k \in 1..Len(roleList) : roleList[k].id = roleId

Deps == DepsOf(userSkills, selectedRoleId, roles, skills, currentStep)

\* App.tsx line 64, merged copy line 320
ProfileEffectDeps == {"userSkills"}

\* variant: the role is left out of the dependencies
AnalysisEffectDepsWithoutRole(v) ==
    IF v = "App" THEN {"userSkills", "roles", "skills", "currentStep"}
    ELSE {"userSkills", "roles", "skills"}

\* App.tsx line 83, merged copy line 336
AnalysisEffectDeps(v) ==
    IF v = "App"
    THEN {"userSkills", "selectedRoleId", "roles", "skills", "currentStep"}
    ELSE {"userSkills", "selectedRoleId", "roles", "skills"}

Changed(names) == ~mounted \/ \E n \in names : committed[n] # Deps[n]

\* an effect pass is outstanding
Pending == Changed(ProfileEffectDeps \cup AnalysisEffectDeps(variant))

Quiescent == ~Pending

\* App.tsx lines 68-82, merged copy lines 324-335: what the effect hands to
\* setAnalysisResult
AnalysisEffectResult ==
    IF Truthy(selectedRoleId) /\ Len(userSkills) >= 0
    THEN IF RoleFound(roles, selectedRoleId) /\ Len(skills) > 0
         THEN analyzeGaps(userSkills, FindRole(roles, selectedRoleId), skills)
         ELSE NoAnalysis
    ELSE NoAnalysis

\* App.tsx lines 74-77: the auto-advance, which the merged copy lacks
AutoAdvances ==
    /\ variant = "App"
    /\ Truthy(selectedRoleId)
    /\ RoleFound(roles, selectedRoleId) /\ Len(skills) > 0
    /\ Len(userSkills) > 0 /\ currentStep = "skills"

InitApp ==
    /\ variant \in {"App", "merged"}
    /\ data \in DataSets
    /\ skills = <<>>
    /\ roles = <<>>
    /\ userProfile = NoProfile
    /\ userSkills = <<>>
    /\ selectedRoleId = Null
    /\ analysisResult = NoAnalysis
    /\ currentStep = "landing"
    /\ mounted = FALSE
    /\ committed = DepsOf(<<>>, Null, <<>>, <<>>, "landing")
    /\ infoStep = 1
    /\ dreamRoleId = Null
    /\ isStudent = FALSE
    /\ ResumeIdle
    /\ ComponentsIdle
    /\ pc = "app"
    /\ text = <<>>
    /\ skillMatches = <<>>
    /\ scanIndex = 0
    /\ extractedSkills = <<>>
    /\ seen = {}
    /\ result = NoResult
    /\ prevResult = NoResult
    /\ calls = 0
    /\ role = RoleRequiringNothing
    /\ prevAnalysis = NoAnalysis

extractorVars ==
    <<text, skillMatches, scanIndex, extractedSkills, seen, result,
      prevResult, calls, role, resumeVars, importVars, chatVars>>

\* one pass of the effects: App.tsx lines 29-33, 60-64 and 67-83, merged
\* copy lines 316-320 and 323-336
RunEffects ==
    /\ Pending
    /\ skills' = IF mounted THEN skills ELSE data.skills
    /\ roles' = IF mounted THEN roles ELSE data.roles
    /\ userProfile' =
          IF /\ Changed(ProfileEffectDeps)
             /\ userProfile # NoProfile /\ Len(userSkills) > 0
          THEN [userProfile EXCEPT !.skills = userSkills]
          ELSE userProfile
    /\ IF Changed(AnalysisEffectDeps(variant))
       THEN /\ analysisResult' = AnalysisEffectResult
            /\ currentStep' = IF AutoAdvances THEN "dashboard" ELSE currentStep
       ELSE UNCHANGED <<analysisResult, currentStep>>
    /\ committed' = Deps
    /\ mounted' = TRUE
    /\ pc' = "effects"
    /\ UNCHANGED <<variant, data, userSkills, selectedRoleId, infoVars,
                   prevAnalysis, extractorVars>>

\* lines 36-38; PersonalInfo is mounted with its initial state
HandleLandingStart ==
    /\ Quiescent
    /\ currentStep = "landing"
    /\ currentStep' = "personal-info"
    /\ infoStep' = 1
    /\ dreamRoleId' = Null
    /\ isStudent' = FALSE
    /\ pc' = "handleLandingStart"
    /\ UNCHANGED <<variant, data, skills, roles, userProfile, userSkills,
                   selectedRoleId, analysisResult, prevAnalysis, mounted,
                   committed, extractorVars>>

\* PersonalInfo lines 247-253
HandleStudentStatusChange ==
    /\ Quiescent
    /\ currentStep = "personal-info" /\ infoStep = 1
    /\ isStudent' = ~isStudent
    /\ pc' = "handleStudentStatusChange"
    /\ UNCHANGED <<variant, data, skills, roles, userProfile, userSkills,
                   selectedRoleId, analysisResult, prevAnalysis, currentStep,
                   mounted, committed, infoStep, dreamRoleId, extractorVars>>

\* PersonalInfo lines 275-285
canProceed == IF infoStep = 1 THEN TRUE ELSE dreamRoleId # Null

TotalSteps == 2

\* PersonalInfo lines 287-291
HandleNext ==
    /\ Quiescent
    /\ currentStep = "personal-info"
    /\ infoStep < TotalSteps /\ canProceed
    /\ infoStep' = infoStep + 1
    /\ pc' = "handleNext"
    /\ UNCHANGED <<variant, data, skills, roles, userProfile, userSkills,
                   selectedRoleId, analysisResult, prevAnalysis, currentStep,
                   mounted, committed, dreamRoleId, isStudent, extractorVars>>

\* PersonalInfo lines 293-297
HandleBack ==
    /\ Quiescent
    /\ currentStep = "personal-info"
    /\ infoStep > 1
    /\ infoStep' = infoStep - 1
    /\ pc' = "handleBack"
    /\ UNCHANGED <<variant, data, skills, roles, userProfile, userSkills,
                   selectedRoleId, analysisResult, prevAnalysis, currentStep,
                   mounted, committed, dreamRoleId, isStudent, extractorVars>>

\* PersonalInfo line 434: a role card is clicked
SetDreamRoleId ==
    /\ Quiescent
    /\ currentStep = "personal-info" /\ infoStep = 2
    /\ \E id \in RoleIds(roles) : dreamRoleId' = id
    /\ pc' = "setDreamRoleId"
    /\ UNCHANGED <<variant, data, skills, roles, userProfile, userSkills,
                   selectedRoleId, analysisResult, prevAnalysis, currentStep,
                   mounted, committed, infoStep, isStudent, extractorVars>>

\* The form is submitted by its submit button, which step 2 renders and
\* enables once a role is chosen (lines 478-485), or, at step 1, by the Enter
\* key in the name field: step 1 renders no submit button, and the name is
\* the only text field unless the user is a student (lines 329, 387).
FormCanBeSubmitted ==
    \/ infoStep = 2 /\ canProceed
    \/ infoStep = 1 /\ ~isStudent

\* PersonalInfo lines 255-273: the profile handed to onComplete
SubmittedProfile ==
    [isStudent |-> isStudent,
     dreamRole |-> IF Truthy(dreamRoleId) THEN dreamRoleId ELSE Undefined,
     skills |-> <<>>]

\* PersonalInfo handleSubmit, then handlePersonalInfoComplete (lines 41-50)
HandlePersonalInfoComplete ==
    /\ Quiescent
    /\ currentStep = "personal-info"
    /\ FormCanBeSubmitted
    /\ LET profile == SubmittedProfile
       IN /\ userProfile' = profile
          /\ selectedRoleId' = IF Truthy(profile.dreamRole)
                               THEN profile.dreamRole ELSE selectedRoleId
          /\ userSkills' = profile.skills
    /\ currentStep' = "skills"
    /\ pc' = "handlePersonalInfoComplete"
    /\ UNCHANGED <<variant, data, skills, roles, analysisResult, prevAnalysis,
                   mounted, committed, infoVars, extractorVars>>

\* the selected role that the dashboard renders, or none
SelectedRoleRendered == RoleFound(roles, selectedRoleId)

\* onSkillsChange={setUserSkills} of SkillsInput and of ResultsDashboard
SetUserSkills ==
    /\ Quiescent
    /\ \/ currentStep = "skills"
       \/ currentStep = "dashboard" /\ SelectedRoleRendered
    /\ userSkills' \in IdLists(VocabularyIds(skills), MaxUserSkills)
    /\ pc' = "setUserSkills"
    /\ UNCHANGED <<variant, data, skills, roles, userProfile, selectedRoleId,
                   analysisResult, prevAnalysis, currentStep, mounted,
                   committed, infoVars, extractorVars>>

\* variant: the button is always enabled
ContinueNeverDisabled == FALSE

\* App.tsx line 124: disabled={userSkills.length === 0 || !selectedRoleId}
ContinueDisabled == Len(userSkills) = 0 \/ ~Truthy(selectedRoleId)

\* lines 53-57, behind the button of the skills step
HandleSkillsComplete ==
    /\ Quiescent
    /\ currentStep = "skills"
    /\ ~ContinueDisabled
    /\ currentStep' = IF Len(userSkills) > 0 THEN "dashboard" ELSE currentStep
    /\ pc' = "handleSkillsComplete"
    /\ UNCHANGED <<variant, data, skills, roles, userProfile, userSkills,
                   selectedRoleId, analysisResult, prevAnalysis, mounted,
                   committed, infoVars, extractorVars>>

\* onRoleSelect={setSelectedRoleId} of RoleSelection
SetSelectedRoleId ==
    /\ Quiescent
    /\ currentStep = "dashboard" /\ ~SelectedRoleRendered
    /\ \E id \in RoleIds(roles) : selectedRoleId' = id
    /\ pc' = "setSelectedRoleId"
    /\ UNCHANGED <<variant, data, skills, roles, userProfile, userSkills,
                   analysisResult, prevAnalysis, currentStep, mounted,
                   committed, infoVars, extractorVars>>

\* merged copy lines 299-306
HandleStartOver ==
    /\ Quiescent
    /\ variant = "merged"
    /\ currentStep = "dashboard" /\ SelectedRoleRendered
    /\ userProfile' = NoProfile
    /\ userSkills' = <<>>
    /\ selectedRoleId' = Null
    /\ analysisResult' = NoAnalysis
    /\ currentStep' = "landing"
    /\ pc' = "handleStartOver"
    /\ UNCHANGED <<variant, data, skills, roles, mounted, committed, infoVars,
                   prevAnalysis, extractorVars>>

\* variant: the skill list is reset with the role
HandleChangeRoleClearingSkills ==
    /\ Quiescent
    /\ variant = "merged"
    /\ currentStep = "dashboard" /\ SelectedRoleRendered
    /\ selectedRoleId' = Null
    /\ userSkills' = <<>>
    /\ pc' = "handleChangeRole"
    /\ UNCHANGED <<variant, data, skills, roles, userProfile,
                   analysisResult, prevAnalysis, currentStep, mounted,
                   committed, infoVars, extractorVars>>

\* merged copy lines 309-313
HandleChangeRole ==
    /\ Quiescent
    /\ variant = "merged"
    /\ currentStep = "dashboard" /\ SelectedRoleRendered
    /\ selectedRoleId' = Null
    /\ pc' = "handleChangeRole"
    /\ UNCHANGED <<variant, data, skills, roles, userProfile, userSkills,
                   analysisResult, prevAnalysis, currentStep, mounted,
                   committed, infoVars, extractorVars>>

NextApp ==
    \/ RunEffects
    \/ HandleLandingStart
    \/ HandleStudentStatusChange \/ HandleNext \/ HandleBack
    \/ SetDreamRoleId
    \/ HandlePersonalInfoComplete
    \/ SetUserSkills
    \/ HandleSkillsComplete
    \/ SetSelectedRoleId
    \/ HandleStartOver
    \/ HandleChangeRole

SpecApp == InitApp /\ [][NextApp]_vars

----------------------------------------------------------------------------
(* ResumeParser and LinkedInParser (SpecImport) *)

(* The two components sit side by side under one parent, which hands both
   the user's skill list as `existingSkills` and its setter as
   `onSkillsExtracted`. A handler sees the existingSkills of the render that
   created it, also in the part of it that runs after an await. pc names the
   handler or continuation that ran last. *)

\* lines 264-322 as one call
parseResume(f, vocabulary) ==
    LET type == detectFileType(f)
        extracted ==
            CASE type = "doc" -> Throws(OldWordFormat)
              [] type = "unknown" -> Throws(UnsupportedFileType(f))
              [] type = "pdf" -> extractTextFromPDF(f)
              [] type = "docx" -> extractTextFromDOCX(f)
              [] type = "txt" -> extractTextFromTXT(f)
        validated ==
            IF extracted.status = "threw" THEN extracted
            ELSE IF Len(Trim(extracted.value)) < MinMeaningfulLength
                 THEN Throws(NoMeaningfulText) ELSE extracted
        found ==
            IF validated.status = "threw" THEN validated
            ELSE LET outcome == extractSkillsFromText(validated.value, vocabulary)
                 IN IF outcome.status = "returned"
                    THEN SkillsOutcome(outcome.value)
                    ELSE Throws(InvalidRegularExpression)
    IN IF found.status = "returned" THEN found
       ELSE IF found.error.length > 20 THEN found
       ELSE Throws(FailedToParseResume(found.error))

\* ResumeParser line 56: 10 * 1024 * 1024
MaxFileSize == 10485760

ResumeText(tail) == <<"t", "e", "a", "m", " ", "l", "e", "a", "d", "e", "r", " ", "w", "i", "t", "h", " ">> \o tail

ImportFile(name, type, decodes, content, size) ==
    [name |-> name, type |-> type,
     magic |-> IF EndsWith(toLowerCase(name), <<".", "p", "d", "f">>) THEN "%PDF" ELSE "other",
     decodes |-> decodes, content |-> content, size |-> size]

\* the files the user can choose
ImportFiles ==
    {ImportFile(CvTxt, MimeNone, TRUE, ResumeText(<<"J", "a", "v", "a">>), 1000),
     ImportFile(Cv, MimeTextPlain, TRUE, ResumeText(<<"s", "a", "l", "e", "s">>), 1000),
     ImportFile(CvPdf, MimeNone, FALSE, <<>>, 1000),
     ImportFile(CvDoc, MimeNone, TRUE, ResumeText(<<"J", "a", "v", "a">>), 1000),
     ImportFile(Cv, MimePng, TRUE, ResumeText(<<"J", "a", "v", "a">>), 1000),
     ImportFile(CvTxt, MimeNone, TRUE, ResumeText(<<"J", "a", "v", "a">>), MaxFileSize + 1)}

\* ResumeParser lines 27-38
HasValidExtension(f) ==
    \E ext \in {<<".", "p", "d", "f">>, <<".", "d", "o", "c", "x">>, <<".", "t", "x", "t">>, <<".", "t", "e", "x", "t">>} :
       EndsWith(toLowerCase(f.name), ext)

HasValidMimeType(f) ==
    f.type \in {MimePdf, MimeDocx, MimeTextPlain} \/ f.type[1] = "text"

\* ResumeParser lines 41-60: the message of the validation, Null if it passes
FileRejection(f) ==
    IF EndsWith(toLowerCase(f.name), <<".", "d", "o", "c">>)
    THEN "Old Word format (.doc) is not supported."
    ELSE IF ~HasValidExtension(f) /\ ~HasValidMimeType(f)
    THEN "Unsupported file type."
    ELSE IF f.size > MaxFileSize THEN "File size must be less than 10MB."
    ELSE Null

\* extractedSkills.filter(skill => !existingSkills.includes(skill))
NewSkills(extracted, existing) ==
    SelectSeq(extracted, LAMBDA id : \A k \in 1..Len(existing) : existing[k] # id)

\* variant: the new skills alone are handed on
MergedNewOnly(existing, new) == new

\* [...existingSkills, ...newSkills]
Merged(existing, new) == existing \o new

Import(stage, existing, outcome, timer) ==
    [stage |-> stage, existingSkills |-> existing, outcome |-> outcome,
     timer |-> timer]

\* the end of an extraction that found skills: the list the component
\* merged them into, and whether and with what it called onSkillsExtracted
Delivery(by, existing, extracted, called, passed) ==
    [by |-> by, existingSkills |-> existing, extracted |-> extracted,
     called |-> called, passed |-> passed]

VocabImport == VocabApp

\* lists of the vocabulary's ids without repetition
SkillLists ==
    {list \in IdLists(VocabularyIds(VocabImport), Len(VocabImport)) :
       \A i, j \in 1..Len(list) : i # j => list[i] # list[j]}

UrlInputs ==
    {<<>>, <<" ">>,
     <<"www.", "linkedin.com/in/", "u", " ">>,
     <<"www.", "example.com/", "u">>}

TextInputs == {<<>>, <<" ">>, <<"J", "a", "v", "a", " ", " ", "a", "n", "d", " ", "R", "e", "a", "c", "t">>, <<"s", "a", "l", "e", "s">>}

InitImport ==
    /\ skills = VocabImport
    /\ userSkills \in SkillLists
    /\ resumeParser = [isProcessing |-> FALSE, error |-> Null, success |-> FALSE]
    /\ linkedInParser =
          [mode |-> "text", isProcessing |-> FALSE, error |-> Null,
           success |-> FALSE, urlInput |-> <<>>, textInput |-> <<>>]
    /\ imports = [resume |-> NoImport, url |-> NoImport]
    /\ delivered = NotDelivered
    /\ ChatIdle
    /\ pc = "import"
    /\ ResumeIdle
    /\ variant = "App"
    /\ data = [skills |-> <<>>, roles |-> <<>>]
    /\ roles = <<>>
    /\ userProfile = NoProfile
    /\ selectedRoleId = Null
    /\ currentStep = "skills"
    /\ mounted = TRUE
    /\ committed = DepsOf(<<>>, Null, <<>>, <<>>, "skills")
    /\ infoStep = 1
    /\ dreamRoleId = Null
    /\ isStudent = FALSE
    /\ text = <<>>
    /\ skillMatches = <<>>
    /\ scanIndex = 0
    /\ extractedSkills = <<>>
    /\ seen = {}
    /\ result = NoResult
    /\ prevResult = NoResult
    /\ calls = 0
    /\ role = RoleRequiringNothing
    /\ analysisResult = NoAnalysis
    /\ prevAnalysis = NoAnalysis

\* what the import actions leave alone
importFrame ==
    <<text, skills, skillMatches, scanIndex, extractedSkills, seen, result,
      prevResult, calls, role, analysisResult, prevAnalysis, resumeVars,
      appVars, chatVars>>

\* the user adds or removes a skill by hand (onSkillsChange of the parent)
ManualEdit ==
    /\ \/ \E id \in VocabularyIds(skills) \ {userSkills[k] : k \in 1..Len(userSkills)} :
             userSkills' = Append(userSkills, id)
       \/ \E k \in 1..Len(userSkills) :
             userSkills' = SubSeq(userSkills, 1, k - 1)
                             \o SubSeq(userSkills, k + 1, Len(userSkills))
    /\ delivered' = NotDelivered
    /\ pc' = "import"
    /\ UNCHANGED <<resumeParser, linkedInParser, imports, importFrame>>

\* ResumeParser lines 19-66: up to the await of parseResume
HandleFileSelect ==
    /\ ~resumeParser.isProcessing
    /\ \E f \in ImportFiles :
          IF FileRejection(f) # Null
          THEN /\ resumeParser' = [resumeParser EXCEPT !.error = FileRejection(f),
                                                       !.success = FALSE]
               /\ UNCHANGED imports
          ELSE /\ resumeParser' = [isProcessing |-> TRUE, error |-> Null,
                                   success |-> FALSE]
               /\ imports' = [imports EXCEPT !.resume =
                                Import("parsing", userSkills,
                                       parseResume(f, skills), FALSE)]
    /\ pc' = "import"
    /\ UNCHANGED <<userSkills, linkedInParser, importFrame>> /\ delivered' = NotDelivered

\* ResumeParser lines 69-96: from the await of parseResume on
ResumeParsed ==
    /\ imports.resume.stage = "parsing"
    /\ LET outcome == imports.resume.outcome
           existingSkills == imports.resume.existingSkills
           newSkills == NewSkills(outcome.value, existingSkills)
       IN IF outcome.status = "threw"
          THEN /\ resumeParser' = [isProcessing |-> FALSE,
                                   error |-> outcome.error.message,
                                   success |-> FALSE]
               /\ UNCHANGED userSkills /\ delivered' = NotDelivered
          ELSE IF Len(outcome.value) = 0
          THEN /\ resumeParser' = [isProcessing |-> FALSE,
                                   error |-> "No skills found in the resume.",
                                   success |-> FALSE]
               /\ UNCHANGED userSkills /\ delivered' = NotDelivered
          ELSE IF Len(newSkills) > 0
          THEN /\ userSkills' = Merged(existingSkills, newSkills)
               /\ delivered' = Delivery("resume", existingSkills, outcome.value,
                                        TRUE, Merged(existingSkills, newSkills))
               /\ resumeParser' = [isProcessing |-> FALSE, error |-> Null,
                                   success |-> TRUE]
          ELSE /\ resumeParser' =
                     [isProcessing |-> FALSE,
                      error |-> "All skills from your resume are already added.",
                      success |-> FALSE]
               /\ delivered' = Delivery("resume", existingSkills, outcome.value,
                                        FALSE, <<>>)
               /\ UNCHANGED userSkills
    /\ imports' = [imports EXCEPT !.resume = NoImport]
    /\ pc' = "import"
    /\ UNCHANGED <<linkedInParser, importFrame>>

\* text.replace(/\s+/g, ' ')
RECURSIVE CollapseWhitespace(_)
CollapseWhitespace(str) ==
    IF str = <<>> THEN <<>>
    ELSE IF Head(str) \in {" ", "\t", "\n", "\r"}
         THEN <<" ">> \o CollapseWhitespace(TrimStart(str))
         ELSE <<Head(str)>> \o CollapseWhitespace(Tail(str))

\* linkedinParser.ts lines 145-156
parseLinkedInText(str, vocabulary) ==
    IF Len(Trim(str)) = 0
    THEN Throws(Error("Please paste some text from your LinkedIn profile.", 50))
    ELSE LET outcome == extractSkillsFromText(Trim(CollapseWhitespace(str)),
                                              vocabulary)
         IN IF outcome.status = "returned" THEN Returns(outcome.value)
            ELSE Throws(InvalidRegularExpression)

\* String.prototype.includes
Includes(str, part) ==
    \E k \in 0..(Len(str) - Len(part)) :
       \A i \in 1..Len(part) : str[k + i] = part[i]

\* A URL is a sequence of pieces. new URL() rejects white space in the host,
\* which is what stands before the path "linkedin.com/in/".
HasProtocol(url) == url # <<>> /\ Head(url) \in {"http://", "https://"}

FinalUrl(profileUrl) ==
    IF HasProtocol(Trim(profileUrl)) THEN Trim(profileUrl)
    ELSE <<"https://">> \o Trim(profileUrl)

IsURL(url) == \A k \in 1..Len(url) : url[k] \notin {" ", "\t", "\n", "\r"}

\* linkedinParser.ts lines 91-107: the message of the validation, Null if
\* the URL passes
UrlRejection(profileUrl) ==
    IF ~Includes(profileUrl, <<"linkedin.com/in/">>)
    THEN "Please enter a valid LinkedIn profile URL"
    ELSE IF ~IsURL(FinalUrl(profileUrl))
    THEN "Invalid URL format. Please enter a valid LinkedIn profile URL."
    ELSE Null

HttpError == "HTTP error! status: 500"
RequiresAuthentication ==
    "LinkedIn profile requires authentication or is not publicly accessible."
NoProxyContent == "Failed to fetch profile content from proxy."
RequestTimedOut ==
    "Request timed out. LinkedIn profile may not be accessible."
UnableToFetch ==
    "Unable to fetch LinkedIn profile. LinkedIn profiles are often not publicly accessible."
FailedToFetch == "Failed to fetch"
NoContentReceived == "No content received from LinkedIn profile."
NoMeaningfulContent ==
    "Unable to extract meaningful content from LinkedIn profile."
NoSkillsInProfile == "No skills found in the LinkedIn profile."

\* linkedinParser.ts lines 73-78: error.message.includes('LinkedIn')
NamesLinkedIn(message) ==
    message \in {RequiresAuthentication, RequestTimedOut, UnableToFetch,
                 NoContentReceived, NoMeaningfulContent, NoSkillsInProfile}

\* linkedinParser.ts lines 65-83: the catch of fetchLinkedInProfileWithProxy
FetchFailure(message) == IF NamesLinkedIn(message) THEN message ELSE UnableToFetch

\* an HTML document is the sequence of its elements, each with its text
Element(tag, str) == [tag |-> tag, text |-> str]

RECURSIVE TextOf(_, _)
TextOf(html, tags) ==
    IF html = <<>> THEN <<>>
    ELSE (IF Head(html).tag \in tags THEN Head(html).text ELSE <<>>)
           \o TextOf(Tail(html), tags)

HtmlTags == {"p", "script", "style"}

\* lines 7-18: the text of the document without script and style elements
extractTextFromHTML(html) == TextOf(html, HtmlTags \ {"script", "style"})

MinProfileLength == 50

ProfileText(tail) == <<"S", "e", "n", "i", "o", "r", " ", "e", "n", "g", "i", "n", "e", "e", "r", " ", "w", "i", "t", "h", " ", "t", "e", "n", " ", "y", "e", "a", "r", "s", " ", "o", "f", " ", "e", "x", "p", "e", "r", "i", "e", "n", "c", "e", " ", "b", "u", "i", "l", "d", "i", "n", "g", " ">> \o tail

\* what the proxy can send as the body of its answer
ProxyBodies ==
    {[json |-> FALSE, contents |-> <<>>],
     [json |-> TRUE, contents |-> <<>>],
     [json |-> TRUE, contents |-> <<Element("p", <<"S", "i", "g", "n", " ", "i", "n", " ", "t", "o", " ", "L", "i", "n", "k", "e", "d", "I", "n">>)>>],
     [json |-> TRUE, contents |-> <<Element("script", ProfileText(<<"J", "a", "v", "a">>))>>],
     [json |-> TRUE, contents |-> <<Element("p", ProfileText(<<"b", "r", "i", "d", "g", "e", "s">>))>>],
     [json |-> TRUE, contents |-> <<Element("style", <<"J", "a", "v", "a">>),
                                    Element("p", ProfileText(<<"R", "e", "a", "c", "t">>))>>]}

\* linkedinParser.ts lines 53-63: response.json() and the check of the
\* contents, with the catch of lines 65-83
ProxyContents(body) ==
    IF ~body.json THEN Throws(Error(FetchFailure("Unexpected token"), 0))
    ELSE IF body.contents = <<>> THEN Throws(Error(FetchFailure(NoProxyContent), 0))
    ELSE LET content == toLowerCase(TextOf(body.contents, HtmlTags))
         IN IF \/ Includes(content, <<"r", "e", "d", "i", "r", "e", "c", "t">>)
               \/ Includes(content, <<"l", "o", "g", "i", "n">>)
               \/ Includes(content, <<"s", "i", "g", "n", " ", "i", "n">>)
            THEN Throws(Error(FetchFailure(RequiresAuthentication), 0))
            ELSE Returns(body.contents)

\* linkedinParser.ts lines 109-139: parseLinkedInURL from the answer on
ProfileOutcome(body, vocabulary) ==
    LET html == ProxyContents(body)
        str == extractTextFromHTML(html.value)
        outcome == extractSkillsFromText(str, vocabulary)
    IN IF html.status = "threw" THEN html
       ELSE IF Len(Trim(TextOf(html.value, HtmlTags))) = 0
       THEN Throws(Error(NoContentReceived, 0))
       ELSE IF Len(Trim(str)) < MinProfileLength
       THEN Throws(Error(NoMeaningfulContent, 0))
       ELSE IF outcome.status # "returned" THEN Throws(InvalidRegularExpression)
       ELSE IF Len(outcome.value) = 0 THEN Throws(Error(NoSkillsInProfile, 0))
       ELSE Returns(outcome.value)

\* LinkedInParser lines 110-141: handleSkillsExtracted, as the state it sets
\* and the list it hands to onSkillsExtracted (`calls` says whether it does)
handleSkillsExtracted(extracted, existingSkills) ==
    LET newSkills == NewSkills(extracted, existingSkills)
    IN IF Len(extracted) = 0
       THEN [calls |-> FALSE, passed |-> <<>>, success |-> FALSE,
             error |-> "No skills found in the LinkedIn profile."]
       ELSE IF Len(newSkills) > 0
       THEN [calls |-> TRUE, passed |-> Merged(existingSkills, newSkills),
             success |-> TRUE, error |-> Null]
       ELSE [calls |-> FALSE, passed |-> <<>>, success |-> FALSE,
             error |-> "All skills from your LinkedIn profile are already added."]

\* LinkedInParser lines 143-147
HandleModeChange ==
    /\ \E newMode \in {"url", "text"} :
          linkedInParser' = [linkedInParser EXCEPT !.mode = newMode,
                                                   !.error = Null,
                                                   !.success = FALSE]
    /\ pc' = "import"
    /\ UNCHANGED <<userSkills, resumeParser, imports, importFrame>> /\ delivered' = NotDelivered

\* LinkedInParser line 186 and line 263: the inputs, disabled while processing
SetInput ==
    /\ ~linkedInParser.isProcessing
    /\ \/ /\ linkedInParser.mode = "url"
          /\ \E v \in UrlInputs :
                linkedInParser' = [linkedInParser EXCEPT !.urlInput = v]
       \/ /\ linkedInParser.mode = "text"
          /\ \E v \in TextInputs :
                linkedInParser' = [linkedInParser EXCEPT !.textInput = v]
    /\ pc' = "import"
    /\ UNCHANGED <<userSkills, resumeParser, imports, importFrame>> /\ delivered' = NotDelivered

\* variant: the button does not look at the input
SubmitEnabledWhileIdle(input) == ~linkedInParser.isProcessing

\* LinkedInParser lines 189, 212, 272 and 285: the button and the key
\* handler submit only a non-blank input and only while nothing is processed
SubmitEnabled(input) == ~linkedInParser.isProcessing /\ Len(Trim(input)) > 0

\* LinkedInParser lines 70-108
HandleTextSubmit ==
    /\ linkedInParser.mode = "text"
    /\ SubmitEnabled(linkedInParser.textInput)
    /\ IF Len(Trim(linkedInParser.textInput)) = 0
       THEN /\ linkedInParser' =
                  [linkedInParser EXCEPT !.error =
                     "Please paste text from your LinkedIn profile."]
            /\ UNCHANGED userSkills /\ delivered' = NotDelivered
       ELSE LET outcome == parseLinkedInText(Trim(linkedInParser.textInput),
                                             skills)
                effects == handleSkillsExtracted(outcome.value, userSkills)
            IN IF outcome.status = "threw"
               THEN /\ linkedInParser' =
                          [linkedInParser EXCEPT !.isProcessing = FALSE,
                                                 !.error = outcome.error.message,
                                                 !.success = FALSE]
                    /\ UNCHANGED userSkills /\ delivered' = NotDelivered
               ELSE IF Len(outcome.value) = 0
               THEN /\ linkedInParser' =
                          [linkedInParser EXCEPT
                             !.isProcessing = FALSE,
                             !.error = "No skills found in the pasted text.",
                             !.success = FALSE]
                    /\ UNCHANGED userSkills /\ delivered' = NotDelivered
               ELSE /\ linkedInParser' =
                          [linkedInParser EXCEPT !.isProcessing = FALSE,
                                                 !.error = effects.error,
                                                 !.success = effects.success,
                                                 !.textInput = <<>>]
                    /\ delivered' = Delivery("text", userSkills, outcome.value,
                                             effects.calls, effects.passed)
                    /\ userSkills' = IF effects.calls THEN effects.passed
                                      ELSE userSkills
    /\ pc' = "import"
    /\ UNCHANGED <<resumeParser, imports, importFrame>>

\* the suffix that LinkedInParser lines 57-59 add to the message
WithAdvice(message) ==
    message \o " LinkedIn profiles are often not publicly accessible."

\* LinkedInParser lines 22-68 up to the await, with linkedinParser.ts lines
\* 90-107 and 26-39: a URL that fails the validation is reported in the
\* same step, any other starts the timer and the request
HandleURLSubmit ==
    /\ linkedInParser.mode = "url"
    /\ SubmitEnabled(linkedInParser.urlInput)
    /\ IF Len(Trim(linkedInParser.urlInput)) = 0
       THEN /\ linkedInParser' =
                  [linkedInParser EXCEPT !.error =
                     "Please enter a LinkedIn profile URL."]
            /\ UNCHANGED imports
       ELSE IF UrlRejection(Trim(linkedInParser.urlInput)) # Null
       THEN /\ linkedInParser' =
                  [linkedInParser EXCEPT
                     !.isProcessing = FALSE,
                     !.error = WithAdvice(UrlRejection(Trim(linkedInParser.urlInput))),
                     !.success = FALSE]
            /\ UNCHANGED imports
       ELSE /\ linkedInParser' = [linkedInParser EXCEPT !.isProcessing = TRUE,
                                                        !.error = Null,
                                                        !.success = FALSE]
            /\ imports' = [imports EXCEPT !.url =
                             Import("fetching", userSkills, Throws(NoError), TRUE)]
    /\ pc' = "import"
    /\ UNCHANGED <<userSkills, resumeParser, importFrame>> /\ delivered' = NotDelivered

\* LinkedInParser lines 41-67 once parseLinkedInURL has settled
UrlImportSettled(outcome) ==
    LET effects == handleSkillsExtracted(outcome.value, imports.url.existingSkills)
    IN /\ IF outcome.status = "threw"
          THEN /\ linkedInParser' =
                     [linkedInParser EXCEPT !.isProcessing = FALSE,
                                            !.error = WithAdvice(outcome.error.message),
                                            !.success = FALSE]
               /\ UNCHANGED userSkills /\ delivered' = NotDelivered
          ELSE /\ linkedInParser' =
                     [linkedInParser EXCEPT !.isProcessing = FALSE,
                                            !.error = effects.error,
                                            !.success = effects.success]
               /\ delivered' = Delivery("url", imports.url.existingSkills,
                                        outcome.value, effects.calls,
                                        effects.passed)
               /\ userSkills' = IF effects.calls THEN effects.passed
                                 ELSE userSkills
       /\ imports' = [imports EXCEPT !.url = NoImport]

\* linkedinParser.ts lines 34-46: fetch settles. An answer with a good
\* status clears the timer and leaves the body to be read; anything else
\* ends in the catch of lines 65-83, which clears the timer too.
FetchSettles ==
    /\ imports.url.stage = "fetching"
    /\ \E answer \in {"ok", "status", "network"} :
          CASE answer = "ok" ->
                 /\ imports' = [imports EXCEPT !.url.stage = "reading",
                                               !.url.timer = FALSE]
                 /\ UNCHANGED <<userSkills, linkedInParser>> /\ delivered' = NotDelivered
            [] answer = "status" ->
                 UrlImportSettled(Throws(Error(FetchFailure(HttpError), 0)))
            [] answer = "network" ->
                 UrlImportSettled(Throws(Error(FetchFailure(FailedToFetch), 0)))
    /\ pc' = "import"
    /\ UNCHANGED <<resumeParser, importFrame>>

\* linkedinParser.ts line 27 and lines 65-71: the timeout aborts the request
TimerFires ==
    /\ imports.url.timer
    /\ UrlImportSettled(Throws(Error(RequestTimedOut, 0)))
    /\ pc' = "import"
    /\ UNCHANGED <<resumeParser, importFrame>>

\* linkedinParser.ts lines 53-63 and 109-139: the body has been read
BodySettles ==
    /\ imports.url.stage = "reading"
    /\ \E body \in ProxyBodies : UrlImportSettled(ProfileOutcome(body, skills))
    /\ pc' = "import"
    /\ UNCHANGED <<resumeParser, importFrame>>

NextImport ==
    \/ ManualEdit
    \/ HandleFileSelect
    \/ ResumeParsed
    \/ HandleModeChange
    \/ SetInput
    \/ HandleTextSubmit
    \/ HandleURLSubmit
    \/ FetchSettles
    \/ TimerFires
    \/ BodySettles

SpecImport == InitImport /\ [][NextImport]_vars

\* the timer fires when it is due; nothing makes the proxy answer
SpecImportFair == SpecImport /\ WF_vars(TimerFires)

----------------------------------------------------------------------------
(* Chatbot and sendChatMessage (SpecChat) *)

MaxMessages == 5

\* a message content is a sequence of pieces of text
Message(sender, content) == [role |-> sender, content |-> content]

\* Chatbot lines 26-36
Greeting == Message("assistant", <<"Hi there! I'm CareerPath AI.">>)

Placeholder == <<"your_openai_api_key_here">>

ApiKeys ==
    {NoKey,
     [defined |-> TRUE, value |-> <<>>],
     [defined |-> TRUE, value |-> <<" ", " ">>],
     [defined |-> TRUE, value |-> Placeholder],
     [defined |-> TRUE, value |-> <<"sk-", "key">>]}

ChatInputs == {<<>>, <<" ">>, <<" ", "hello", " ">>}

\* Chatbot lines 160-165
quickQuestions ==
    {<<"What courses should I take?">>, <<"Guide me through the app">>}

ConfigurationError == "OpenAI API key is not configured."

\* what the request can settle to: a reply, an answer without content, an
\* answer with an error status, and a rejection of fetch
Settlements ==
    {Returns(<<"Take the React course.">>), Returns(<<>>),
     Throws(Error("API request failed with status 500", 0)),
     Throws(Error("Failed to fetch", 0))}

\* Chatbot lines 139-147: the content of the message that reports an error
ErrorText(message) ==
    <<"Sorry, I encountered an error: ", message, ". Please try again.">>

\* openai.ts line 158
ReplyText(content) ==
    IF content = <<>> THEN <<"Sorry, I could not generate a response.">>
    ELSE content

\* variant: only an undefined or empty key is refused
KeyConfiguredWhenNotEmpty(key) == key.defined /\ key.value # <<>>

\* openai.ts line 116
KeyConfigured(key) ==
    ~(\/ ~key.defined \/ key.value = <<>>
      \/ key.value = Placeholder
      \/ Trim(key.value) = <<>>)

InitChat ==
    /\ chatbot = [isOpen |-> FALSE, messages |-> <<Greeting>>,
                  inputValue |-> <<>>, isLoading |-> FALSE]
    /\ apiKey \in ApiKeys
    /\ requests = [inFlight |-> 0, sent |-> 0]
    /\ pc = "chat"
    /\ ImportIdle
    /\ AppContentIdle
    /\ ResumeIdle
    /\ userSkills = <<>>
    /\ skills = <<>>
    /\ text = <<>>
    /\ skillMatches = <<>>
    /\ scanIndex = 0
    /\ extractedSkills = <<>>
    /\ seen = {}
    /\ result = NoResult
    /\ prevResult = NoResult
    /\ calls = 0
    /\ role = RoleRequiringNothing
    /\ analysisResult = NoAnalysis
    /\ prevAnalysis = NoAnalysis

\* what the Chatbot actions leave alone
chatFrame ==
    <<text, skills, skillMatches, scanIndex, extractedSkills, seen, result,
      prevResult, calls, role, analysisResult, prevAnalysis, userSkills,
      resumeVars, appVars, importVars, apiKey>>

\* Chatbot lines 213 and 266: the toggle and the close button
ToggleOpen ==
    /\ chatbot' = [chatbot EXCEPT !.isOpen = ~chatbot.isOpen]
    /\ pc' = "setIsOpen"
    /\ UNCHANGED <<requests, chatFrame>>

\* Chatbot lines 324-331: the textarea, disabled while loading
SetInputValue ==
    /\ chatbot.isOpen
    /\ ~chatbot.isLoading
    /\ \E v \in ChatInputs : chatbot' = [chatbot EXCEPT !.inputValue = v]
    /\ pc' = "setInputValue"
    /\ UNCHANGED <<requests, chatFrame>>

\* Chatbot lines 113-142 and 173-196 with openai.ts lines 100-125: the user
\* message is appended and sendChatMessage is called; with a key that is not
\* configured it rejects before fetch and the catch and the finally run
\* before any other event, otherwise the request leaves
Send(content, input) ==
    IF ~KeyConfigured(apiKey)
    THEN /\ chatbot' =
               [chatbot EXCEPT
                  !.messages = chatbot.messages
                                 \o <<Message("user", content),
                                      Message("assistant",
                                              ErrorText(ConfigurationError))>>,
                  !.inputValue = input,
                  !.isLoading = FALSE]
         /\ UNCHANGED requests
    ELSE /\ chatbot' =
               [chatbot EXCEPT
                  !.messages = Append(chatbot.messages, Message("user", content)),
                  !.inputValue = input,
                  !.isLoading = TRUE]
         /\ requests' = [inFlight |-> requests.inFlight + 1,
                         sent |-> requests.sent + 1]

\* Chatbot lines 110-151, from the Enter key of the textarea or the send
\* button (lines 324-337)
HandleSendMessage ==
    /\ chatbot.isOpen
    /\ ~(Len(Trim(chatbot.inputValue)) = 0 \/ chatbot.isLoading)
    /\ Len(chatbot.messages) + 2 <= MaxMessages
    /\ Send(Trim(chatbot.inputValue), <<>>)
    /\ pc' = "handleSendMessage"
    /\ UNCHANGED chatFrame

\* variant: the quick questions stay on the screen
QuickQuestionsAlwaysRendered == TRUE

\* Chatbot lines 303-312: the quick questions are rendered before the first
\* question and while nothing is loading
QuickQuestionsRendered == Len(chatbot.messages) = 1 /\ ~chatbot.isLoading

\* Chatbot lines 167-205
HandleQuickQuestion ==
    /\ chatbot.isOpen
    /\ QuickQuestionsRendered
    /\ Len(chatbot.messages) + 2 <= MaxMessages
    /\ \E question \in quickQuestions : Send(question, chatbot.inputValue)
    /\ pc' = "handleQuickQuestion"
    /\ UNCHANGED chatFrame

\* openai.ts lines 135-166 and Chatbot lines 128-150: the request settles and
\* the handler that awaited it appends the reply or the error text
RequestSettles ==
    /\ requests.inFlight > 0
    /\ \E settlement \in Settlements :
          chatbot' =
             [chatbot EXCEPT
                !.messages =
                   Append(chatbot.messages,
                          Message("assistant",
                                  IF settlement.status = "returned"
                                  THEN ReplyText(settlement.value)
                                  ELSE ErrorText(settlement.error.message))),
                !.isLoading = FALSE]
    /\ requests' = [requests EXCEPT !.inFlight = requests.inFlight - 1]
    /\ pc' = "requestSettles"
    /\ UNCHANGED chatFrame

NextChat ==
    \/ ToggleOpen
    \/ SetInputValue
    \/ HandleSendMessage
    \/ HandleQuickQuestion
    \/ RequestSettles

SpecChat == InitChat /\ [][NextChat]_vars

----------------------------------------------------------------------------
(* Vocabulary of the properties *)

\* a call of the extractor has returned
Returned == calls >= 1 /\ pc \in {"analyze", "call"}

Ids(list) == {list[i] : i \in 1..Len(list)}

Count(list, x) == Cardinality({i \in 1..Len(list) : list[i] = x})

SkillsOf(vocabulary) == {vocabulary[i] : i \in 1..Len(vocabulary)}

\* the lower-cased label, id and aliases of a skill
PatternsOf(skill) ==
    {toLowerCase(skill.label), toLowerCase(skill.id)}
    \cup {toLowerCase(skill.aliases[k]) : k \in 1..Len(skill.aliases)}

\* the pattern occurs in str, ignoring case, right after the first s characters
OccursAt(pattern, str, s) ==
    /\ s + Len(pattern) <= Len(str)
    /\ \A i \in 1..Len(pattern) : LowerChar(str[s + i]) = pattern[i]

Offsets(str) == 0..Len(str)

\* the occurrence is delimited by non-word characters or the ends of the text
DelimitedAt(pattern, str, s) ==
    /\ OccursAt(pattern, str, s)
    /\ s = 0 \/ ~IsWordChar(str[s])
    /\ s + Len(pattern) = Len(str) \/ ~IsWordChar(str[s + Len(pattern) + 1])

Delimited(pattern, str) == \E s \in Offsets(str) : DelimitedAt(pattern, str, s)

\* the occurrence is part of a longer word: the word its first or its last
\* character belongs to goes on beyond the occurrence
InsideLongerWordAt(pattern, str, s) ==
    /\ OccursAt(pattern, str, s)
    /\ Len(pattern) > 0
    /\ \/ IsWordChar(pattern[1]) /\ s > 0 /\ IsWordChar(str[s])
       \/ /\ IsWordChar(pattern[Len(pattern)])
          /\ s + Len(pattern) < Len(str)
          /\ IsWordChar(str[s + Len(pattern) + 1])

\* every occurrence of every pattern of the skill lies inside a longer word
OnlyInsideLongerWords(skill, str) ==
    \A pattern \in PatternsOf(skill) : \A s \in Offsets(str) :
        OccursAt(pattern, str, s) => InsideLongerWordAt(pattern, str, s)

OccursSomewhere(skill, str) ==
    \E pattern \in PatternsOf(skill) : \E s \in Offsets(str) :
        OccursAt(pattern, str, s)

IsWhitespace(str) == \A i \in 1..Len(str) : str[i] \in {" ", "\t", "\n", "\r"}

JavaPattern == <<"j", "a", "v", "a">>
JavaScriptPattern == <<"j", "a", "v", "a", "s", "c", "r", "i", "p", "t">>
JavaId == SkillJava.id
JsId == SkillJs.id
JavaVocabularies == {VocabJsJava, VocabJavaJs}

----------------------------------------------------------------------------
(* Properties *)

\* C1: the list returned by extractSkillsFromText never contains the same
\* skill id twice (nor does the list under construction), also when several
\* patterns of one skill match the text.
C1_NoDuplicateIds ==
    /\ \A id \in Ids(extractedSkills) : Count(extractedSkills, id) = 1
    /\ Returned => \A id \in Ids(result) : Count(result, id) = 1

\* a call has returned for a text in which two different patterns of one
\* skill occur as whole words, and the skill is in the result
C1_Witness ==
    /\ Returned
    /\ \E skill \in SkillsOf(skills) :
          /\ skill.id \in Ids(result)
          /\ \E p1, p2 \in PatternsOf(skill) :
                p1 # p2 /\ Delimited(p1, text) /\ Delimited(p2, text)
                /\ p1 # <<>> /\ p2 # <<>>

\* C2: a skill whose patterns occur in the text only inside longer words is
\* not returned; and for the Java/JavaScript vocabulary, a text that has
\* "java" as a whole word and no occurrence of a JavaScript pattern yields
\* the Java id and not the JavaScript id.
C2_WholeWordOnly ==
    Returned =>
      /\ \A skill \in SkillsOf(skills) :
            OnlyInsideLongerWords(skill, text) => skill.id \notin Ids(result)
      /\ (/\ skills \in JavaVocabularies
          /\ Delimited(JavaPattern, text)
          /\ ~OccursSomewhere(SkillJs, text))
         => (JavaId \in Ids(result) /\ JsId \notin Ids(result))

\* a call has returned for a text where "java" occurs, only inside the
\* longer word "javascript", and the Java id was not returned
C2_Witness ==
    /\ Returned
    /\ skills \in JavaVocabularies
    /\ \E s \in Offsets(text) : OccursAt(JavaScriptPattern, text, s)
    /\ OnlyInsideLongerWords(SkillJava, text)
    /\ JavaId \notin Ids(result)
    /\ JsId \in Ids(result)

\* C3: for a text with both "JavaScript" and "Java" as whole words, both ids
\* are returned exactly once; and a text with "JavaScript" as a whole word
\* but without "Java" as a whole word does not yield the Java id.
C3_JavaAndJavaScript ==
    (Returned /\ skills \in JavaVocabularies) =>
      /\ (Delimited(JavaScriptPattern, text) /\ Delimited(JavaPattern, text))
         => (Count(result, JsId) = 1 /\ Count(result, JavaId) = 1)
      /\ (Delimited(JavaScriptPattern, text) /\ ~Delimited(JavaPattern, text))
         => JavaId \notin Ids(result)

\* a call has returned both ids for a text with both whole words
C3_Witness ==
    /\ Returned
    /\ skills \in JavaVocabularies
    /\ Delimited(JavaScriptPattern, text)
    /\ Delimited(JavaPattern, text)
    /\ Ids(result) = {JsId, JavaId}

\* the occurrence at s has a word boundary (\b) at both of its ends
BoundedAt(pattern, str, s) ==
    /\ OccursAt(pattern, str, s)
    /\ WordBoundary(str, s)
    /\ WordBoundary(str, s + Len(pattern))

Bounded(pattern, str) == \E s \in Offsets(str) : BoundedAt(pattern, str, s)

IsSubstring(short, long) == \E k \in Offsets(long) : OccursAt(short, long, k)

\* the occurrence of pattern at s lies within a matched occurrence of a
\* longer pattern, of another skill, that contains it
AbsorbedAt(pattern, skill, str, s) ==
    \E other \in SkillsOf(skills) \ {skill} :
      \E long \in PatternsOf(other) :
        /\ Len(long) > Len(pattern)
        /\ IsSubstring(pattern, long)
        /\ \E sl \in Offsets(str) :
              /\ BoundedAt(long, str, sl)
              /\ sl <= s
              /\ s + Len(pattern) <= sl + Len(long)

\* C4: a text occurrence of a longer pattern is never also attributed to
\* the skill of a shorter pattern that is a substring of it: every returned
\* skill (with non-empty patterns) has a matching occurrence of one of its
\* patterns that does not lie within the matched occurrence of a longer
\* pattern of another skill.
C4_LongerPatternNotAbsorbed ==
    Returned =>
      \A skill \in SkillsOf(skills) :
        (skill.id \in Ids(result) /\ <<>> \notin PatternsOf(skill)) =>
          \E pattern \in PatternsOf(skill) : \E s \in Offsets(text) :
            /\ BoundedAt(pattern, text, s)
            /\ ~AbsorbedAt(pattern, skill, text, s)

\* C5: a skill is returned whenever one of its (non-empty) patterns occurs
\* in the text delimited on both sides by non-word characters or the ends
\* of the text, also when the pattern ends in punctuation ("C++", "C#").
C5_DelimitedPatternMatches ==
    Returned =>
      \A skill \in SkillsOf(skills) : \A pattern \in PatternsOf(skill) :
        (pattern # <<>> /\ Delimited(pattern, text))
          => skill.id \in Ids(result)

\* C6: extractSkillsFromText never throws: the expression built for every
\* candidate pattern compiles, whatever characters the pattern contains.
C6_NeverThrows ==
    /\ pc # "threw"
    /\ \A k \in 1..Len(skillMatches) :
          Compile(RegexSource(skillMatches[k].pattern)).status = "ok"

\* a call has returned a skill through a pattern that contains a regex
\* metacharacter
C6_Witness ==
    /\ Returned
    /\ \E k \in 1..Len(skillMatches) :
          /\ \E i \in 1..Len(skillMatches[k].pattern) :
                skillMatches[k].pattern[i] \in EscapeClass
          /\ Bounded(skillMatches[k].pattern, text)
          /\ skillMatches[k].skillId \in Ids(result)

\* C7: an empty candidate pattern is skipped: a skill none of whose
\* non-empty patterns matches the text is not returned.
C7_EmptyPatternSkipped ==
    Returned =>
      \A skill \in SkillsOf(skills) :
        (\A pattern \in PatternsOf(skill) :
            pattern # <<>> => ~Bounded(pattern, text))
          => skill.id \notin Ids(result)

\* C8: for the empty text and for whitespace-only text the call returns the
\* empty list and does not throw, for every vocabulary.
C8_BlankTextYieldsNothing ==
    IsWhitespace(text) =>
      /\ pc # "threw"
      /\ extractedSkills = <<>>
      /\ Returned => result = <<>>

\* a call has returned for a non-empty whitespace-only text and a vocabulary
\* with an empty pattern
C8_Witness ==
    /\ Returned
    /\ text # <<>>
    /\ IsWhitespace(text)
    /\ \E skill \in SkillsOf(skills) : <<>> \in PatternsOf(skill)
    /\ result = <<>>

SkillById(id) == CHOOSE skill \in SkillsOf(skills) : skill.id = id

\* length of the longest pattern of the skill that matches the text
LongestMatch(skill, str) ==
    LET lens == {Len(pattern) : pattern \in {q \in PatternsOf(skill) : Bounded(q, str)}}
    IN CHOOSE n \in lens : \A m \in lens : m <= n

\* C9: the output is in the order of first match of the longest-first scan
\* (a skill whose longest matching pattern is longer comes first), not in
\* declaration order; the scenario text yields exactly <<js, java>> for the
\* vocabulary [js, java] and for the vocabulary [java, js].
C9_LongestFirstOrder ==
    Returned =>
      /\ \A i, j \in 1..Len(result) :
            i < j => LongestMatch(SkillById(result[i]), text)
                       >= LongestMatch(SkillById(result[j]), text)
      /\ (text = ScenarioText /\ skills \in JavaVocabularies)
            => result = <<JsId, JavaId>>

\* the scenario text was scanned with Java declared first and the result
\* has the JavaScript id first
C9_Witness ==
    /\ Returned
    /\ text = ScenarioText
    /\ skills = VocabJavaJs
    /\ result = <<JsId, JavaId>>

TestedPatternsOf(skill) ==
    {toLowerCase(skill.label)}
    \cup (IF toLowerCase(skill.id) # toLowerCase(skill.label)
          THEN {toLowerCase(skill.id)} ELSE {})
    \cup {toLowerCase(skill.aliases[k]) : k \in 1..Len(skill.aliases)}

\* C19: the ids returned are exactly the ids of the skills of which a
\* pattern (label, id or alias) occurs in the text as a whole word, that
\* is delimited by non-word characters or the ends of the text.
C19_ExactlyTheMatchingSkills ==
    Returned =>
      Ids(result) = {skill.id : skill \in
                       {sk \in SkillsOf(skills) :
                          \E pattern \in TestedPatternsOf(sk) :
                             pattern # <<>> /\ Delimited(pattern, text)}}

DeclarationIndex(id) == CHOOSE k \in 1..Len(skills) : skills[k].id = id

NodeId == SkillNode.id

\* C20: candidates of equal length are tested in their original order, so
\* of two returned skills whose longest matching patterns have the same
\* length the one declared earlier in the vocabulary comes first.
C20_EqualLengthKeepsDeclarationOrder ==
    /\ pc = "scan" =>
          \A n \in {Len(skillMatches[k].pattern) : k \in 1..Len(skillMatches)} :
             SelectSeq(skillMatches, LAMBDA c : Len(c.pattern) = n)
               = SelectSeq(AllCandidates(skills, 1), LAMBDA c : Len(c.pattern) = n)
    /\ Returned =>
          \A i, j \in 1..Len(result) :
             (/\ i < j
              /\ LongestMatch(SkillById(result[i]), text)
                    = LongestMatch(SkillById(result[j]), text))
               => DeclarationIndex(result[i]) < DeclarationIndex(result[j])

\* "Node" is declared before "Java", both match with patterns of length 4,
\* and the Node id comes first
C20_Witness ==
    /\ Returned
    /\ skills = VocabNodeJava
    /\ result = <<NodeId, JavaId>>

\* the call of lines 176-221 taken in steps and taken at once agree
ExtractorAgrees ==
    Returned => result = extractSkillsFromText(text, skills).value

----------------------------------------------------------------------------
(* Properties of parseResume (SpecResume) *)

\* no pattern the extractor tests matches the text
NothingMatches(str, vocabulary) ==
    \A skill \in SkillsOf(vocabulary) : \A pattern \in TestedPatternsOf(skill) :
       ~RegexTest(Compile(RegexSource(pattern)), str)

\* the text the library reads out of the file, if it reads one
TextOutcomeOf(f) ==
    CASE detectFileType(f) = "pdf" -> extractTextFromPDF(f)
      [] detectFileType(f) = "docx" -> extractTextFromDOCX(f)
      [] detectFileType(f) = "txt" -> extractTextFromTXT(f)
      [] OTHER -> Throws(NoError)

\* the text of the file was extracted: the file is of a supported type, the
\* library read it, and the text passed the validation of lines 299-304
TextExtracted(f) ==
    /\ TextOutcomeOf(f).status = "returned"
    /\ Len(Trim(TextOutcomeOf(f).value)) >= MinMeaningfulLength

ResumeDone == pc \in {"resumeReturned", "resumeThrew"}

\* C18: zero skills is a normal outcome: when no pattern matches the text,
\* extractSkillsFromText returns the empty list and throws nothing, and
\* parseResume, given a file whose text was extracted and holds no skill,
\* returns the empty list instead of throwing.
C18_NoSkillsIsNotAnError ==
    /\ thrown # InvalidRegularExpression
    /\ (pc = "extracted" /\ NothingMatches(text, skills))
          => extractedSkills = <<>>
    /\ (/\ ResumeDone
        /\ TextExtracted(file)
        /\ NothingMatches(TextOutcomeOf(file).value, skills))
          => (pc = "resumeReturned" /\ result = <<>> /\ thrown = NoError)

\* a PDF whose text is long enough and names no skill has been parsed
C18_Witness ==
    /\ pc = "resumeReturned"
    /\ fileType = "pdf"
    /\ TextExtracted(file)
    /\ NothingMatches(text, skills)
    /\ result = <<>>

----------------------------------------------------------------------------
(* Properties of AppContent (SpecApp) *)

\* C17: once the effects have run, analysisResult is the analysis of the
\* current userSkills against the currently selected role, and it is null
\* exactly when no role is selected, the selected id names no role, or the
\* vocabulary is empty; no result of an earlier skill list or role is kept.
C17_AnalysisFollowsSkillsAndRole ==
    Quiescent =>
      /\ analysisResult = NoAnalysis
           <=> \/ selectedRoleId = Null
               \/ ~(\E k \in 1..Len(roles) : roles[k].id = selectedRoleId)
               \/ skills = <<>>
      /\ analysisResult # NoAnalysis =>
           \E k \in 1..Len(roles) :
              /\ roles[k].id = selectedRoleId
              /\ analysisResult = analyzeGaps(userSkills, roles[k], skills)

\* the user chose one role in PersonalInfo, changed to the other one on the
\* dashboard, and the analysis at rest is the one of the other role
C17_Witness ==
    /\ Quiescent
    /\ currentStep = "dashboard"
    /\ userProfile.dreamRole = RoleFrontend.id
    /\ selectedRoleId = RoleBackend.id
    /\ userSkills = <<SkillReact.id>>
    /\ analysisResult.roleId = RoleBackend.id
    /\ analysisResult.matchedSkills = <<SkillReact.id>>

\* C21: a dream role is mandatory: every profile PersonalInfo hands to
\* onComplete has its dreamRole set, and the skills step is never shown
\* with selectedRoleId null.
C21_DreamRoleMandatory ==
    /\ userProfile # NoProfile => Truthy(userProfile.dreamRole)
    /\ currentStep = "skills" => selectedRoleId # Null

\* C22: the dashboard is entered only from the skills step, and only with a
\* non-empty userSkills and a selected role at the moment of the transition.
C22_DashboardOnlyFromSkills ==
    [][(currentStep # "dashboard" /\ currentStep' = "dashboard")
         => /\ currentStep = "skills"
            /\ userSkills # <<>>
            /\ Truthy(selectedRoleId)
            /\ userSkills' # <<>>
            /\ Truthy(selectedRoleId')]_vars

\* the button of the skills step has taken the user to the dashboard
C22_Witness ==
    /\ pc = "handleSkillsComplete"
    /\ currentStep = "dashboard"
    /\ userSkills # <<>>
    /\ Truthy(selectedRoleId)

C24_ProfileSkillsFollowUserSkills ==
    (Quiescent /\ userProfile # NoProfile) => userProfile.skills = userSkills

----------------------------------------------------------------------------
(* Properties of ResumeParser and LinkedInParser (SpecImport) *)

HasNoDuplicate(list) ==
    \A i, j \in 1..Len(list) : list[i] = list[j] => i = j

\* the error the component that ended the extraction shows
ErrorShownBy(by) ==
    IF by = "resume" THEN resumeParser.error ELSE linkedInParser.error

NotYetAdded(extracted, existing) ==
    SelectSeq(extracted, LAMBDA id : \A k \in 1..Len(existing) : existing[k] # id)

\* C25: an extraction that finds an id the component's existingSkills lacks
\* hands onSkillsExtracted the existingSkills followed by the new ids in the
\* order of the extraction, without a duplicate when existingSkills has
\* none; one that finds only ids already there does not call
\* onSkillsExtracted and sets the error.
C25_MergeIsAdditive ==
    delivered.by # "none" =>
       LET new == NotYetAdded(delivered.extracted, delivered.existingSkills)
       IN IF new # <<>>
          THEN /\ delivered.called
               /\ delivered.passed = delivered.existingSkills \o new
               /\ HasNoDuplicate(delivered.existingSkills)
                     => HasNoDuplicate(delivered.passed)
               /\ ErrorShownBy(delivered.by) = Null
          ELSE /\ ~delivered.called
               /\ ErrorShownBy(delivered.by) # Null

C25_Witness ==
    /\ delivered.called
    /\ delivered.existingSkills # <<>>
    /\ Len(delivered.passed) > Len(delivered.existingSkills)

\* C26: the list an import hands to onSkillsExtracted when it completes
\* holds every skill of the list the user has at that moment.
C26_NoUpdateLostToAnImport ==
    [][delivered'.called =>
          \A k \in 1..Len(userSkills) :
             \E j \in 1..Len(delivered'.passed) :
                delivered'.passed[j] = userSkills[k]]_vars

\* C27: in neither component the success flag holds together with an error
\* message.
C27_SuccessExcludesError ==
    /\ ~(resumeParser.success /\ resumeParser.error # Null)
    /\ ~(linkedInParser.success /\ linkedInParser.error # Null)

C27_Witness ==
    /\ linkedInParser.success
    /\ linkedInParser.mode = "text"
    /\ Len(Trim(linkedInParser.textInput)) = 0
    /\ resumeParser.success

\* C28: a LinkedIn URL import that has started ends: isProcessing returns to
\* false, and no timer is left armed once it has.
C28_UrlImportTerminates ==
    /\ (imports.url.stage # "none") ~> ~linkedInParser.isProcessing
    /\ [](~linkedInParser.isProcessing => ~imports.url.timer)

----------------------------------------------------------------------------
(* Properties of the Chatbot (SpecChat) *)

RoleAt(i) == IF i % 2 = 0 THEN "user" ELSE "assistant"

\* C29: at most one request is in flight; the history starts with the
\* greeting and alternates user and assistant messages, a user message
\* being last exactly while its request is in flight; the history only
\* grows at its end.
C29_OneRequestAndAlternation ==
    /\ [](/\ requests.inFlight <= 1
          /\ chatbot.messages # <<>>
          /\ chatbot.messages[1] = Greeting
          /\ \A i \in 1..Len(chatbot.messages) :
                chatbot.messages[i].role = RoleAt(i)
          /\ (Len(chatbot.messages) % 2 = 0) <=> (requests.inFlight = 1)
          /\ chatbot.isLoading <=> (requests.inFlight = 1))
    /\ [][/\ Len(chatbot.messages') >= Len(chatbot.messages)
          /\ SubSeq(chatbot.messages', 1, Len(chatbot.messages))
                = chatbot.messages]_vars

C29_Witness ==
    /\ Len(chatbot.messages) = 5
    /\ requests = [inFlight |-> 0, sent |-> 2]

KeyMissingBlankOrPlaceholder ==
    \/ ~apiKey.defined
    \/ \A k \in 1..Len(apiKey.value) : apiKey.value[k] = " "
    \/ apiKey.value = Placeholder

\* C30: with a key that is missing, blank or the placeholder no request is
\* ever made, and a send appends the user message and the configuration
\* error as an assistant message after the earlier messages and leaves
\* isLoading false.
C30_NoRequestWithoutKey ==
    [][KeyMissingBlankOrPlaceholder /\ pc' \in {"handleSendMessage", "handleQuickQuestion"}
          => /\ requests' = [inFlight |-> 0, sent |-> 0]
             /\ ~chatbot'.isLoading
             /\ Len(chatbot'.messages) = Len(chatbot.messages) + 2
             /\ SubSeq(chatbot'.messages, 1, Len(chatbot.messages))
                   = chatbot.messages
             /\ chatbot'.messages[Len(chatbot.messages) + 1].role = "user"
             /\ chatbot'.messages[Len(chatbot.messages) + 2]
                   = Message("assistant", ErrorText(ConfigurationError))]_vars

C30_Witness ==
    /\ KeyMissingBlankOrPlaceholder
    /\ apiKey.defined
    /\ Len(chatbot.messages) = 5
    /\ chatbot.messages[5] = Message("assistant", ErrorText(ConfigurationError))

----------------------------------------------------------------------------
(* Properties of analyzeGaps (SpecAnalyze) *)

Analyzed == pc = "analyzed"

RequirementsOfRole == role.requiredSkills

RequirementIndexes == 1..Len(RequirementsOfRole)

\* the user has the skill: the id is in the list and in the vocabulary
UserHas(id) ==
    /\ id \in Ids(userSkills)
    /\ id \in VocabularyIds(skills)

MatchedIndexes == {k \in RequirementIndexes : UserHas(RequirementsOfRole[k].skillId)}

\* r is n/d rounded to the nearest integer, halves up
IsRounded(r, n, d) == 2 * d * r <= 2 * n + d /\ 2 * n + d < 2 * d * (r + 1)

\* C11: for a role with at least one requirement readinessPercent is
\* round(100 * matchedCount / totalCount), an integer in 0..100.
C11_SimpleReadiness ==
    (Analyzed /\ Len(RequirementsOfRole) >= 1) =>
      /\ analysisResult.readinessPercent \in 0..100
      /\ IsRounded(analysisResult.readinessPercent,
                   100 * Cardinality(MatchedIndexes), Len(RequirementsOfRole))

\* two of three requirements are matched and the score is rounded up to 67
C11_Witness ==
    /\ Analyzed
    /\ Len(RequirementsOfRole) = 3
    /\ Cardinality(MatchedIndexes) = 2
    /\ analysisResult.readinessPercent = 67

\* C12: for a role without requirements both scores are 100.
C12_NoRequirements ==
    (Analyzed /\ Len(RequirementsOfRole) = 0) =>
      /\ analysisResult.readinessPercent = 100
      /\ analysisResult.weightedReadinessPercent = 100

\* a role without requirements was analysed for a user with skills
C12_Witness ==
    /\ Analyzed
    /\ Len(RequirementsOfRole) = 0
    /\ userSkills # <<>>
    /\ analysisResult.readinessPercent = 100
    /\ analysisResult.weightedReadinessPercent = 100

\* sum of the importances of the requirements at the given indexes
ImportanceOver(indexes) ==
    LET With(level) == Cardinality({k \in indexes :
                                      RequirementsOfRole[k].importance = level})
    IN With(1) + 2 * With(2) + 3 * With(3)

\* the role requires A with importance 3, which the user lacks, and B with
\* importance 1, which the user has
IsWeightedScenario ==
    /\ Len(RequirementsOfRole) = 2
    /\ \E a, b \in RequirementIndexes :
          /\ RequirementsOfRole[a].importance = 3 /\ a \notin MatchedIndexes
          /\ RequirementsOfRole[b].importance = 1 /\ b \in MatchedIndexes

\* C13: weightedReadinessPercent is round(100 * sum of importance over the
\* matched requirements / sum of importance over all requirements) with the
\* raw importances 1..3; for A (3, missing) and B (1, present) it is 25 and
\* the simple readiness is 50.
C13_WeightedReadiness ==
    Analyzed =>
      /\ Len(RequirementsOfRole) >= 1 =>
            IsRounded(analysisResult.weightedReadinessPercent,
                      100 * ImportanceOver(MatchedIndexes),
                      ImportanceOver(RequirementIndexes))
      /\ IsWeightedScenario =>
            /\ analysisResult.weightedReadinessPercent = 25
            /\ analysisResult.readinessPercent = 50

\* the scenario of the specification was analysed
C13_Witness ==
    /\ Analyzed
    /\ IsWeightedScenario
    /\ analysisResult.weightedReadinessPercent = 25

CategoryInVocabulary(id) ==
    (CHOOSE skill \in SkillsOf(skills) : skill.id = id).category

\* C14: missingSkillsByCategory has exactly the four category keys, and its
\* lists hold exactly the missing skills, each once and under the category
\* the vocabulary gives it.
C14_MissingByCategoryTotal ==
    Analyzed =>
      LET byCategory == analysisResult.missingSkillsByCategory
      IN /\ DOMAIN byCategory = {"language", "framework", "tool", "soft"}
         /\ \A category \in DOMAIN byCategory :
               \A id \in Ids(byCategory[category]) :
                  /\ id \in Ids(analysisResult.missingSkills)
                  /\ CategoryInVocabulary(id) = category
                  /\ Count(byCategory[category], id) = 1
         /\ \A id \in Ids(analysisResult.missingSkills) :
               id \in Ids(byCategory[CategoryInVocabulary(id)])

\* a skill is missing and some category has no missing skill
C14_Witness ==
    /\ Analyzed
    /\ analysisResult.missingSkills # <<>>
    /\ \E category \in DOMAIN analysisResult.missingSkillsByCategory :
          analysisResult.missingSkillsByCategory[category] = <<>>
    /\ \E category \in DOMAIN analysisResult.missingSkillsByCategory :
          analysisResult.missingSkillsByCategory[category] # <<>>

\* the ids of list appear in the order of the role's requirements
InRequirementOrder(list) ==
    \A i, j \in 1..Len(list) :
      i < j => \E a, b \in RequirementIndexes :
                  /\ a < b
                  /\ RequirementsOfRole[a].skillId = list[i]
                  /\ RequirementsOfRole[b].skillId = list[j]

\* C15: every requirement is in matchedSkills when its skill is in
\* normalizedUserSkills and in missingSkills otherwise, never in both; both
\* lists hold nothing else and keep the order of the requirements.
C15_MatchedMissingPartition ==
    Analyzed =>
      LET matched == analysisResult.matchedSkills
          missing == analysisResult.missingSkills
          normalized == Ids(analysisResult.normalizedUserSkills)
      IN /\ \A k \in RequirementIndexes :
               LET id == RequirementsOfRole[k].skillId
               IN IF id \in normalized
                  THEN Count(matched, id) = 1 /\ id \notin Ids(missing)
                  ELSE Count(missing, id) = 1 /\ id \notin Ids(matched)
         /\ Len(matched) + Len(missing) = Len(RequirementsOfRole)
         /\ InRequirementOrder(matched)
         /\ InRequirementOrder(missing)

\* a role of three requirements was split into matched and missing ones
C15_Witness ==
    /\ Analyzed
    /\ Len(RequirementsOfRole) = 3
    /\ Len(analysisResult.matchedSkills) = 2
    /\ Len(analysisResult.missingSkills) = 1

\* C16: a user skill id that is not in the vocabulary is dropped silently:
\* it is in neither normalizedUserSkills nor matchedSkills, the known ids
\* are kept in their order, the scores are those of the known ids alone,
\* and the analysis completes.
C16_UnknownIdsDropped ==
    Analyzed =>
      LET known == SelectSeq(userSkills, LAMBDA id : id \in VocabularyIds(skills))
      IN /\ analysisResult.normalizedUserSkills = known
         /\ UnknownSkillId \notin Ids(analysisResult.normalizedUserSkills)
         /\ UnknownSkillId \notin Ids(analysisResult.matchedSkills)
         /\ Len(RequirementsOfRole) >= 1 =>
               /\ IsRounded(analysisResult.readinessPercent,
                            100 * Cardinality(MatchedIndexes),
                            Len(RequirementsOfRole))
               /\ IsRounded(analysisResult.weightedReadinessPercent,
                            100 * ImportanceOver(MatchedIndexes),
                            ImportanceOver(RequirementIndexes))

\* a list with an unknown id and a known one was analysed
C16_Witness ==
    /\ Analyzed
    /\ UnknownSkillId \in Ids(userSkills)
    /\ analysisResult.normalizedUserSkills # <<>>
    /\ analysisResult.matchedSkills # <<>>

====
